---- MODULE Spec2Model ----
(***************************************************************************)
(* Verification model of the WebWorldWind (ESA build) gesture/navigation   *)
(* controller, the Drag and Pan gesture recognizers, the                   *)
(* DoubleBufferedFbo ping-pong framebuffer pair and the particle pipeline  *)
(* of GriddedDataLayer.                                                    *)
(*                                                                         *)
(* The specifications of the module:                                       *)
(*   SpecFbo     - one DoubleBufferedFbo, its WebGL context and its owner  *)
(*   SpecCtl     - BasicWorldWindowController: fling animations            *)
(*   FairSpecCtl - the same with time advancing and callbacks run          *)
(*   SpecZoom    - BasicWorldWindowController: range changes               *)
(*   SpecRec     - one DragRecognizer and one PanRecognizer                *)
(*   SpecArb     - the dependencies between the touch recognizers          *)
(*   SpecNorth   - BasicWorldWindowController: heading and tilt gestures   *)
(*   SpecClick   - BasicWorldWindowController: the double-click latch      *)
(*   SpecRay     - BasicWorldWindowController: rays that miss the globe    *)
(*   SpecUniform - the uniform loaders of the two particle programs        *)
(*   SpecRender  - GriddedDataLayer.renderToTexture, frame after frame     *)
(*   SpecInvalidate - the same, with numParticles and colors being set      *)
(*   SpecDispatch - onGestureEvent: delivery to GestureRecognizer.allRecognizers *)
(*   SpecRedraw  - the gesture handlers and the redraw they request       *)
(*   SpecEase    - the easing of one fling animation, tick by tick         *)
(*   SpecCodec   - particle positions encoded into RGBA texels and back    *)
(*   SpecLong    - onGestureEvent: the long-click flag                     *)
(*   SpecLoad    - GriddedDataLayer.doRender and loadGridData              *)
(*   SpecShapes  - RenderableLayer.doRender: time-based visibility         *)
(*   SpecSpin    - a drag of the 3D globe and the fling that follows       *)
(*   SpecLatch   - the double-click latch across presses and flings        *)
(*   SpecTwist   - heading gestures with a pan beside them                 *)
(*   FairSpecEditor - ShapeEditor: create, edit, stop and the user's clicks *)
(***************************************************************************)
EXTENDS Integers, Sequences, FiniteSets, TLC

VARIABLES
    dbf,        \* the DoubleBufferedFbo object together with the WebGL context it acts on
    fboOp,      \* the DoubleBufferedFbo call made last, with what it observed
    ctl,        \* the BasicWorldWindowController fields and the navigator it drives
    ctlOp,      \* the controller handler or fling tick run last, with what it observed
    drag,       \* a DragRecognizer
    pan,        \* a PanRecognizer
    recOp,      \* the recognizer event delivered last
    arb,        \* the touch recognizers of the controller, as the arbitration sees them
    gpu,        \* the WebGL context of the particle pipeline and the layer's GPU resources
    gpuOp,      \* the loader or renderToTexture call made last
    reg,        \* GestureRecognizer.allRecognizers, and the event dispatched last
    ease,       \* the numbers of one fling animation and the camera coordinate it moves
    px,         \* a particle position and the RGBA texel that carries it
    shapesLayer,\* a RenderableLayer with its renderables, and what render saw in the last frame
    spin,       \* the camera of a 3D globe, the last drag and the fling that follows it
    editor      \* a ShapeEditor and the promises its create() has returned

fboVars == <<dbf, fboOp>>
ctlVars == <<ctl, ctlOp>>
recVars == <<drag, pan, recOp>>
arbVars == <<arb>>
gpuVars == <<gpu, gpuOp>>
regVars == <<reg>>
easeVars == <<ease>>
pxVars == <<px>>
shapesVars == <<shapesLayer>>
spinVars == <<spin>>
editorVars == <<editor>>
vars == <<dbf, fboOp, ctl, ctlOp, drag, pan, recOp, arb, gpu, gpuOp, reg, ease, px, shapesLayer, spin, editor>>

\* What the operations of one component leave alone.
exceptFbo == <<ctlVars, recVars, arbVars, gpuVars, regVars, easeVars, pxVars, shapesVars, spinVars, editorVars>>
exceptCtl == <<fboVars, recVars, arbVars, gpuVars, regVars, easeVars, pxVars, shapesVars, spinVars, editorVars>>
exceptRec == <<fboVars, ctlVars, arbVars, gpuVars, regVars, easeVars, pxVars, shapesVars, spinVars, editorVars>>
exceptArb == <<fboVars, ctlVars, recVars, gpuVars, regVars, easeVars, pxVars, shapesVars, spinVars, editorVars>>
exceptGpu == <<fboVars, ctlVars, recVars, arbVars, regVars, easeVars, pxVars, shapesVars, spinVars, editorVars>>
exceptReg == <<fboVars, ctlVars, recVars, arbVars, gpuVars, easeVars, pxVars, shapesVars, spinVars, editorVars>>
exceptEase == <<fboVars, ctlVars, recVars, arbVars, gpuVars, regVars, pxVars, shapesVars, spinVars, editorVars>>
exceptPx == <<fboVars, ctlVars, recVars, arbVars, gpuVars, regVars, easeVars, shapesVars, spinVars, editorVars>>
exceptShapes == <<fboVars, ctlVars, recVars, arbVars, gpuVars, regVars, easeVars, pxVars, spinVars, editorVars>>
exceptSpin == <<fboVars, ctlVars, recVars, arbVars, gpuVars, regVars, easeVars, pxVars, shapesVars, editorVars>>
exceptEditor == <<fboVars, ctlVars, recVars, arbVars, gpuVars, regVars, easeVars, pxVars, shapesVars, spinVars>>

(***************************************************************************)
(* DoubleBufferedFbo                                                       *)
(***************************************************************************)

\* Largest number of swap() invocations followed in one behaviour.
MaxSwaps == 4

Textures == {"texture1", "texture2"}
Fbos == {"fbo1", "fbo2"}
PixelStates == {"zero", "data"}

\* new DoubleBufferedFbo(dc, texture1, texture2, width, height); the two textures
\* arrive holding whatever the caller uploaded (p1, p2).
DoubleBufferedFbo(p1, p2) ==
    [ texture1 |-> "texture1", texture2 |-> "texture2",
      fbo1 |-> "fbo1", fbo2 |-> "fbo2",
      fbo1Complete |-> FALSE, fbo2Complete |-> FALSE,
      primary |-> 1,
      isCleared |-> TRUE,
      \* WebGL context
      boundFramebuffer |-> "null",
      boundTexture |-> "null",
      attachment |-> [f \in Fbos |-> "none"],
      pixels |-> [t \in Textures |-> IF t = "texture1" THEN p1 ELSE p2],
      \* bookkeeping of calls
      attachCalls |-> [t \in Textures |-> 0],
      clears |-> [t \in Textures |-> 0],
      swapCount |-> 0,
      disposed |-> FALSE ]

getPrimaryFbo(s) == IF s.primary = 1 THEN s.fbo1 ELSE s.fbo2

getSecondaryFbo(s) == IF s.primary = 1 THEN s.fbo2 ELSE s.fbo1

getPrimaryTexture(s) == IF s.primary = 1 THEN s.texture1 ELSE s.texture2

getSecondaryTexture_SameSide(s) == s.texture2

getSecondaryTexture(s) == IF s.primary = 1 THEN s.texture2 ELSE s.texture1

swap_Stuck(s) ==
    [s EXCEPT !.primary = 2, !.swapCount = @ + 1]

swap(s) ==
    [s EXCEPT !.primary = IF s.primary = 1 THEN 2 ELSE 1,
              !.swapCount = @ + 1]

\* gl.framebufferTexture2D(gl.FRAMEBUFFER, COLOR_ATTACHMENT0, TEXTURE_2D, t, 0):
\* attaches t to the framebuffer that is bound now.
glFramebufferTexture2D(s, t) ==
    IF s.boundFramebuffer \in Fbos
    THEN [s EXCEPT !.attachment[s.boundFramebuffer] = t,
                   !.attachCalls[t] = IF @ < 2 THEN @ + 1 ELSE @]
    ELSE s

ensureFboComplete_Always(s) ==
    IF s.primary = 1
    THEN [glFramebufferTexture2D(s, s.texture1) EXCEPT !.fbo1Complete = TRUE]
    ELSE [glFramebufferTexture2D(s, s.texture2) EXCEPT !.fbo2Complete = TRUE]

ensureFboComplete(s) ==
    IF s.primary = 1 /\ ~s.fbo1Complete
    THEN [glFramebufferTexture2D(s, s.texture1) EXCEPT !.fbo1Complete = TRUE]
    ELSE IF s.primary = 2 /\ ~s.fbo2Complete
    THEN [glFramebufferTexture2D(s, s.texture2) EXCEPT !.fbo2Complete = TRUE]
    ELSE s

bindFbo(s) ==
    ensureFboComplete([s EXCEPT !.boundFramebuffer = getPrimaryFbo(s)])

bind(s) == [s EXCEPT !.boundTexture = getPrimaryTexture(s)]

\* gl.clear(COLOR | DEPTH | STENCIL) on the bound framebuffer: zeroes the texture
\* attached to it.
glClear(s) ==
    IF s.boundFramebuffer \in Fbos /\ s.attachment[s.boundFramebuffer] \in Textures
    THEN LET t == s.attachment[s.boundFramebuffer]
         IN [s EXCEPT !.pixels[t] = "zero", !.clears[t] = IF @ < 2 THEN @ + 1 ELSE @]
    ELSE s

\* gl.drawArrays into the bound framebuffer: the attached texture receives data.
glDrawArrays(s) ==
    IF s.boundFramebuffer \in Fbos /\ s.attachment[s.boundFramebuffer] \in Textures
    THEN [s EXCEPT !.pixels[s.attachment[s.boundFramebuffer]] = "data"]
    ELSE s

clearFbo_Once(s) ==
    IF s.isCleared THEN s
    ELSE [swap(swap(glClear(bindFbo(s)))) EXCEPT !.isCleared = TRUE]

clearFbo(s) ==
    IF s.isCleared THEN s
    ELSE [swap(glClear(bindFbo(swap(glClear(bindFbo(s)))))) EXCEPT !.isCleared = TRUE]

dispose(s) ==
    [s EXCEPT !.texture1 = "undefined", !.texture2 = "undefined",
              !.fbo1 = "undefined", !.fbo2 = "undefined",
              !.disposed = TRUE]

\* One pass of GriddedDataLayer.renderToTexture over a pair: bind the primary
\* framebuffer, clear it, draw, swap, mark the pair as not cleared.
renderPass(s) ==
    [swap(glDrawArrays(glClear(bindFbo(s)))) EXCEPT !.isCleared = FALSE]

\* The record of a call: what the object looked like when the call was made.
FboCall(name, s) ==
    [ name |-> name, primary |-> s.primary, isCleared |-> s.isCleared,
      pixels |-> s.pixels ]

StartCounting(s) == [s EXCEPT !.clears = [t \in Textures |-> 0]]

InitFboPart ==
    /\ \E p1 \in PixelStates, p2 \in PixelStates : dbf = DoubleBufferedFbo(p1, p2)
    /\ fboOp = FboCall("new", dbf)

BindFbo ==
    /\ ~dbf.disposed
    /\ dbf' = bindFbo(StartCounting(dbf))
    /\ fboOp' = FboCall("bindFbo", dbf)
    /\ UNCHANGED exceptFbo

Bind ==
    /\ ~dbf.disposed
    /\ dbf' = bind(StartCounting(dbf))
    /\ fboOp' = FboCall("bind", dbf)
    /\ UNCHANGED exceptFbo

Swap ==
    /\ dbf.swapCount < MaxSwaps
    /\ dbf' = swap(StartCounting(dbf))
    /\ fboOp' = FboCall("swap", dbf)
    /\ UNCHANGED exceptFbo

ClearFbo ==
    /\ ~dbf.disposed
    /\ dbf.swapCount + 2 <= MaxSwaps
    /\ dbf' = clearFbo(StartCounting(dbf))
    /\ fboOp' = FboCall("clearFbo", dbf)
    /\ UNCHANGED exceptFbo

RenderPass ==
    /\ ~dbf.disposed
    /\ dbf.swapCount < MaxSwaps
    /\ dbf' = renderPass(StartCounting(dbf))
    /\ fboOp' = FboCall("renderPass", dbf)
    /\ UNCHANGED exceptFbo

Dispose ==
    /\ ~dbf.disposed
    /\ dbf' = dispose(StartCounting(dbf))
    /\ fboOp' = FboCall("dispose", dbf)
    /\ UNCHANGED exceptFbo

NextFbo ==
    \/ BindFbo
    \/ Bind
    \/ Swap
    \/ ClearFbo
    \/ RenderPass
    \/ Dispose

(***************************************************************************)
(* BasicWorldWindowController                                              *)
(***************************************************************************)

\* Largest number of fling animations pending at once.
MaxFrames == 2
\* Locations are 0..MaxLoc, a ring of look-at positions; 0 is Location(0, 0).
MaxLoc == 1

AnimationDuration == 1500
DoubleClickAnimationDuration == 500
LongClickDuration == 6000000
DoubleClickInterval == 300
LongClickDelay == 1000
DeltaScaleDivisor == 200
WheelDivisor == 1000
LineDelta == 40
PageDelta == 400

Locs == 0..MaxLoc
\* Vertical client coordinates an event can carry.
ClientYs == {0, 200}
\* Time passes by the animation duration, or at once past the long-click duration.
TimeSteps == {AnimationDuration, LongClickDuration}
\* WheelEvent.deltaMode: DOM_DELTA_PIXEL, DOM_DELTA_LINE, DOM_DELTA_PAGE.
DeltaModes == {0, 1}
WheelDeltas == {-1000, -25, 100}
EventTypes == {"pointerdown", "pointermove", "pointerup",
               "mousedown", "mousemove", "mouseup",
               "touchstart", "touchmove", "touchend"}
DownTypes == {"pointerdown", "mousedown", "touchstart"}
MoveTypes == {"pointermove", "mousemove", "touchmove"}
UpTypes == {"pointerup", "mouseup", "touchend"}
PointerTypes == {"mouse", "touch"}
PointerEventTypes == {"pointerdown", "pointermove", "pointerup"}

Min(a, b) == IF a < b THEN a ELSE b

\* A wall-clock difference (new Date() - startTime, e.timeStamp - lastClickTime)
\* after d more ms. The code compares it with thresholds only, and it is followed up
\* to the longest threshold it is compared with; the values between the animation
\* duration and the long-click duration are read alike and kept at the former.
ClockAfter(c, d, longest) ==
    IF c + d >= longest THEN longest ELSE Min(c + d, AnimationDuration)

\* navigator.range is followed by its class as an IEEE number: "pos", "zero", "neg"
\* or "nan". The class of a number n:
SignOf(n) == IF n > 0 THEN "pos" ELSE IF n = 0 THEN "zero" ELSE "neg"

\* The class of a product r * s.
Times(r, s) ==
    IF r = "nan" \/ s = "nan" THEN "nan"
    ELSE IF r = "zero" \/ s = "zero" THEN "zero"
    ELSE IF r = s THEN "pos" ELSE "neg"

\* The class of a quotient r / s for s # 0.
Over(r, s) ==
    IF r = "nan" \/ s = "nan" THEN "nan"
    ELSE IF r = "zero" THEN "zero"
    ELSE IF r = s THEN "pos" ELSE "neg"

\* new BasicWorldWindowController(worldWindow), on a 2D or 3D globe, with the
\* navigator looking at loc. Optional values are <<>> (null, undefined) or <<v>>.
BasicWorldWindowController(globe2D, loc) ==
    [ flingAnimationId |-> -1,
      doubleClick |-> FALSE,
      longClick |-> FALSE,
      readyToDetectLongClickBeforeMove |-> TRUE,
      \* e.timeStamp - lastClickTime for an event delivered now
      sinceClick |-> 0,
      northUpMode |-> TRUE,
      lastPoint |-> 0,
      dragDelta |-> 0,
      dragLastLocation |-> 0,
      pointerLocation |-> <<>>,
      beginRange |-> "zero",
      \* the constructor sets lastDeltaScale; lastdeltaScale starts undefined
      lastdeltaScale |-> <<>>,
      keepNorthUp |-> TRUE,
      detectNorthUp |-> FALSE,
      beginHeading |-> 0,
      beginTilt |-> 0,
      lastRotation |-> 0,
      \* wwd.globe, wwd.navigator: the camera is an ArcBallCamera, angles in degrees
      is2D |-> globe2D,
      isArcBall |-> TRUE,
      range |-> "pos",
      lookAtLocation |-> loc,
      heading |-> 0,
      tilt |-> 0,
      roll |-> 0,
      \* wwd.redraw() has been called and the frame is not drawn yet
      redrawRequested |-> FALSE,
      \* gesture recognizers, as the controller sees them
      press |-> "up",
      pinch |-> "idle",
      \* the callbacks window.requestAnimationFrame holds
      frames |-> {} ]

applyLimits(k) == k

\* this.wwd.redraw()
redraw(k) == [k EXCEPT !.redrawRequested = TRUE]

\* What extractViewingParameters returns after a ray met the globe at location:
\* heading, tilt and roll as the view matrix has them.
Params(location, heading) ==
    [ heading |-> heading, tilt |-> 0, roll |-> 0, origin |-> location ]

\* A fling animation is followed by the slot it was started in. The handle that
\* requestAnimationFrame returns for its callback is this slot: a handle no other
\* pending callback has, which is all the code relies on.
FreeAnim(k) ==
    CHOOSE a \in 1..(Cardinality(k.frames) + 1) : \A f \in k.frames : f.anim # a

\* this.flingAnimationId = window.requestAnimationFrame(animate)
requestAnimationFrame(k, closure) ==
    [k EXCEPT !.frames = @ \cup {closure},
              !.flingAnimationId = closure.anim]

cancelAnimationFrame(k, h) ==
    [k EXCEPT !.frames = {f \in @ : f.anim # h}]

cancelFlingAnimation(k) ==
    IF k.flingAnimationId # -1
    THEN [cancelAnimationFrame(k, k.flingAnimationId) EXCEPT !.flingAnimationId = -1]
    ELSE k

\* Location arithmetic on the ring of locations.
LocMinus(loc, d) == (loc - d) % (MaxLoc + 1)

\* The closure of an animate function: the variables it captured.
Closure(kind, k, anim) ==
    [ anim |-> anim, kind |-> kind,
      \* new Date() - startTime
      age |-> 0,
      \* handleFling3D's animate writes lastLocation and never reads it
      lastLocation |-> IF kind = "dbl" THEN k.lookAtLocation
                       ELSE IF kind = "2D" THEN k.dragLastLocation ELSE 0,
      initialDelta |-> IF kind = "3D" THEN k.dragDelta ELSE 0,
      northUpMode |-> IF kind = "3D" THEN k.northUpMode ELSE TRUE ]

\* An event as onGestureEvent reads it.
Event(type, pointerType) ==
    [ type |-> type, pointerType |-> pointerType ]

\* The events delivered: pointer events carry a pointerType.
Events ==
    {Event(t, pt) : t \in PointerEventTypes, pt \in PointerTypes}
    \cup {Event(t, "") : t \in EventTypes \ PointerEventTypes}

EventsOf(types) == {e \in Events : e.type \in types}

\* What locationAtPickPoint can return: <<>> for undefined, <<l>> for a location.
Picks == {<<>>} \cup {<<l>> : l \in Locs}

\* moveZoom(x, y, amount): isOne is amount === 1, pick is what locationAtPickPoint
\* returns, location is what the great-circle computations return.
moveZoom(k, isOne, pick, location) ==
    IF isOne THEN k
    ELSE LET k1 == IF k.pointerLocation = <<>>
                   THEN [k EXCEPT !.pointerLocation = pick] ELSE k
         IN IF k1.pointerLocation = <<>> THEN k1
            ELSE [k1 EXCEPT !.lookAtLocation = location]

handleWheelEvent(k, deltaMode, deltaY, pick, location) ==
    LET normalizedDelta == IF deltaMode = 0 THEN deltaY
                           ELSE IF deltaMode = 1 THEN deltaY * LineDelta
                           ELSE deltaY * PageDelta
        \* scale = 1 + normalizedDelta / 1000
        scale == SignOf(WheelDivisor + normalizedDelta)
        k1 == moveZoom(k, normalizedDelta = 0, pick, location)
    IN redraw(applyLimits([k1 EXCEPT !.range = Times(@, scale)]))

\* scale is the class of recognizer.scale, amountIsOne whether newRange equals range.
handlePinch(k, state, scale, amountIsOne, pick, location) ==
    IF state = "BEGAN"
    THEN [k EXCEPT !.beginRange = k.range, !.pointerLocation = <<>>]
    ELSE IF state = "CHANGED" /\ scale # "zero"
    THEN LET newRange == Over(k.beginRange, scale)
             k1 == moveZoom(k, amountIsOne, pick, location)
         IN redraw(applyLimits([k1 EXCEPT !.range = newRange]))
    ELSE k

handleDoubleClickDragOrPan(k, state, y) ==
    IF state = "BEGAN"
    THEN [k EXCEPT !.lastPoint = y]
    ELSE IF state = "CHANGED"
    THEN LET deltaScale == y - k.lastPoint
             \* scale = 1 - deltaScale / 200
             scale == SignOf(DeltaScaleDivisor - deltaScale)
         IN redraw(applyLimits([k EXCEPT !.lastPoint = y,
                                         !.range = Times(@, scale),
                                         !.lastdeltaScale = <<deltaScale>>]))
    ELSE k

rotateShpere_Unchecked(k, hit, params) ==
    [k EXCEPT !.heading = params.heading, !.lookAtLocation = params.origin]

\* rotateShpere(rotationVector, angle, isFling): hit says whether the angle and the
\* vector are finite and the forward ray of the rotated view met the globe, params
\* is what the rotated view yields. Headings are whole degrees, which Math.round
\* leaves as they are.
rotateShpere(k, hit, params) ==
    LET tilt == k.tilt
        k0 == [k EXCEPT !.tilt = 0]
    IN IF ~hit THEN [k0 EXCEPT !.tilt = tilt]
       ELSE [k0 EXCEPT !.heading = params.heading,
                       !.lookAtLocation = params.origin,
                       !.tilt = tilt]

\* move3D(x, y): hit says whether every ray of the call met the globe, params.origin
\* is the look-at location the geometry yields.
move3D(k, hit, params) ==
    IF ~hit THEN k
    ELSE IF ~k.northUpMode THEN rotateShpere(k, hit, params)
    ELSE [k EXCEPT !.lookAtLocation = params.origin]

handlePanOrDrag3D(k, state, y, hit, params) ==
    IF state = "BEGAN"
    THEN IF hit THEN [k EXCEPT !.lastPoint = y] ELSE k
    ELSE IF state = "CHANGED" /\ hit
    THEN LET k1 == applyLimits([move3D(k, hit, params) EXCEPT !.lastPoint = y])
         IN redraw([k1 EXCEPT !.dragDelta = LocMinus(k.dragLastLocation, k1.lookAtLocation),
                              !.dragLastLocation = k1.lookAtLocation])
    ELSE k

\* move2D(tx, ty): y2 is beginPoint[1] + ty. dragDelta keeps whether the two points
\* differ.
move2D(k, y2, hit, params) ==
    LET y1 == k.lastPoint
        k1 == [k EXCEPT !.lastPoint = y2]
    IN IF ~hit THEN k1
       ELSE LET k2 == redraw(applyLimits([k1 EXCEPT !.lookAtLocation = params.origin,
                                                    !.range = "pos",
                                                    !.heading = params.heading,
                                                    !.tilt = params.tilt,
                                                    !.roll = params.roll]))
            IN [k2 EXCEPT !.dragDelta = IF y1 # y2 THEN 1 ELSE 0,
                          !.dragLastLocation = k2.lookAtLocation]

handlePanOrDrag2D(k, state, y, hit, params) ==
    IF state = "BEGAN" THEN [k EXCEPT !.lastPoint = y]
    ELSE IF state = "CHANGED" THEN move2D(k, y, hit, params)
    ELSE k

handlePanOrDrag_LatchFirst(k, state, y, hit, params) ==
    IF k.doubleClick THEN handleDoubleClickDragOrPan(k, state, y)
    ELSE IF k.is2D THEN handlePanOrDrag2D(k, state, y, hit, params)
    ELSE handlePanOrDrag3D(k, state, y, hit, params)

handlePanOrDrag(k, state, y, hit, params) ==
    IF k.is2D THEN handlePanOrDrag2D(k, state, y, hit, params)
    ELSE IF k.doubleClick THEN handleDoubleClickDragOrPan(k, state, y)
    ELSE handlePanOrDrag3D(k, state, y, hit, params)

handleFling2D(k) ==
    requestAnimationFrame(k, Closure("2D", k, FreeAnim(k)))

handleFling3D(k, hit) ==
    IF ~hit THEN k
    ELSE requestAnimationFrame(k, Closure("3D", k, FreeAnim(k)))

handleDoubleClickFling(k) ==
    [requestAnimationFrame(k, Closure("dbl", k, FreeAnim(k))) EXCEPT !.doubleClick = FALSE]

\* handleFling for a fling recognizer in state Recognized.
handleFling(k, hit) ==
    IF k.is2D THEN handleFling2D(k)
    ELSE IF k.doubleClick THEN handleDoubleClickFling(k)
    ELSE handleFling3D(k, hit)

onGestureEventHead_LatchPerPress(k, e) ==
    IF e.type = "pointerdown"
    THEN [k EXCEPT !.doubleClick = k.sinceClick < DoubleClickInterval, !.sinceClick = 0]
    ELSE k

\* The part of onGestureEvent that precedes the polling of the recognizers.
onGestureEventHead(k, e) ==
    LET k1 == IF e.type = "mousemove" \/ (e.pointerType = "mouse" /\ e.type = "pointermove")
              THEN [k EXCEPT !.pointerLocation = <<>>] ELSE k
        k2 == IF e.type = "pointermove" /\ k1.readyToDetectLongClickBeforeMove
              THEN [k1 EXCEPT !.longClick = (k1.sinceClick > LongClickDelay),
                              !.readyToDetectLongClickBeforeMove = FALSE]
              ELSE k1
    IN IF e.type = "pointerdown"
       THEN [cancelFlingAnimation(
               [k2 EXCEPT !.doubleClick = IF ~k2.doubleClick
                                          THEN k2.sinceClick < DoubleClickInterval
                                          ELSE TRUE,
                          !.readyToDetectLongClickBeforeMove = TRUE,
                          !.sinceClick = 0])
             EXCEPT !.longClick = FALSE]
       ELSE k2

elapsedBelowOne_Late(age, duration) == age <= duration

\* elapsed < 1, for elapsed = min(1, (new Date() - startTime) / duration)
elapsedBelowOne(age, duration) == age < duration

DurationOf(k, f) ==
    IF f.kind = "dbl" THEN DoubleClickAnimationDuration
    ELSE IF f.kind = "3D" /\ k.longClick THEN LongClickDuration
    ELSE AnimationDuration

\* The longest duration the animate closure f can compare its age with.
LongestDuration(f) ==
    IF f.kind = "dbl" THEN DoubleClickAnimationDuration
    ELSE IF f.kind = "3D" THEN LongClickDuration
    ELSE AnimationDuration

\* Twice the easing value sin(elapsed * PI / 2): 0 at elapsed 0, 2 at elapsed 1,
\* and 1 for every value strictly in between.
TwiceValue(age, duration) ==
    IF age = 0 THEN 0 ELSE IF age >= duration THEN 2 ELSE 1

animate2D_NoAbort(k, f, y2, hit, params) ==
    LET k1 == move2D([k EXCEPT !.flingAnimationId = -1], y2, hit, params)
    IN IF elapsedBelowOne(f.age, DurationOf(k, f))
       THEN requestAnimationFrame(k1, [f EXCEPT !.lastLocation = k1.lookAtLocation])
       ELSE k1

\* One run of the animate closure f of handleFling2D.
animate2D(k, f, y2, hit, params) ==
    LET k0 == [k EXCEPT !.flingAnimationId = -1]
    IN IF f.lastLocation # k0.lookAtLocation THEN k0
       ELSE LET k1 == move2D(k0, y2, hit, params)
            IN IF elapsedBelowOne(f.age, DurationOf(k, f))
               THEN requestAnimationFrame(k1, [f EXCEPT !.lastLocation = k1.lookAtLocation])
               ELSE k1

\* One run of the animate closure f of handleFling3D.
animate3D(k, f, hit, params) ==
    LET k0 == [k EXCEPT !.flingAnimationId = -1]
        below == elapsedBelowOne(f.age, DurationOf(k, f))
        \* initialDelta * (1 - value)
        delta == IF TwiceValue(f.age, DurationOf(k, f)) = 2 THEN 0 ELSE f.initialDelta
        k1 == IF ~f.northUpMode
              THEN rotateShpere(k0, hit, params)
              ELSE [k0 EXCEPT !.lookAtLocation = LocMinus(@, delta)]
        k2 == redraw(applyLimits(k1))
    IN IF below THEN requestAnimationFrame(k2, f) ELSE k2

\* One run of the animate closure f of handleDoubleClickFling.
animateDoubleClick(k, f) ==
    LET k0 == [k EXCEPT !.flingAnimationId = -1]
    IN IF f.lastLocation # k0.lookAtLocation THEN k0
       ELSE LET \* scale = 1 - (lastdeltaScale - value) / 200
                scale == IF k0.lastdeltaScale = <<>> THEN "nan"
                         ELSE SignOf(2 * (DeltaScaleDivisor - k0.lastdeltaScale[1])
                                     + TwiceValue(f.age, DurationOf(k, f)))
                k1 == redraw(applyLimits([k0 EXCEPT !.range = Times(@, scale)]))
            IN IF elapsedBelowOne(f.age, DurationOf(k, f))
               THEN requestAnimationFrame(k1, f)
               ELSE k1

animate(k, f, y2, hit, params) ==
    IF f.kind = "2D" THEN animate2D(k, f, y2, hit, params)
    ELSE IF f.kind = "3D" THEN animate3D(k, f, hit, params)
    ELSE animateDoubleClick(k, f)

\* What the last handler run saw and did. For a fling tick: the kind of animation,
\* whether it computed elapsed < 1, whether the navigator was where the animation
\* left it, and whether the animation was scheduled again.
CtlCall(name, kind, below, located, rescheduled) ==
    [ name |-> name, kind |-> kind, below |-> below,
      located |-> located, rescheduled |-> rescheduled ]

Handled(name) == CtlCall(name, "", FALSE, FALSE, FALSE)

\* The events the controller is driven with: the pointer's y coordinates, the wheel
\* deltas, the pinch scales, what a pick returns, and how many flings may be pending
\* when one more is recognized.
FlingInputs ==
    [ ys |-> {0}, rays |-> Picks, steps |-> TimeSteps, pending |-> MaxFrames ]

\* Every ray meets the globe at Location(0, 0).
TimedInputs ==
    [ ys |-> {0}, rays |-> {<<0>>}, steps |-> TimeSteps, pending |-> MaxFrames ]

\* Zooming about Location(0, 0), one fling at a time.
ZoomInputs ==
    [ ys |-> ClientYs, rays |-> {<<0>>}, pending |-> 1,
      deltas |-> WheelDeltas, modes |-> DeltaModes, scales |-> {"pos", "zero"},
      picks |-> {<<>>, <<0>>} ]

InitCtlPart ==
    /\ \E globe2D \in BOOLEAN, loc \in Locs : ctl = BasicWorldWindowController(globe2D, loc)
    /\ ctlOp = Handled("new")

\* onGestureEvent for an event the base controller reports as handled, or one that
\* changes no recognizer's state: only the head of the method has an effect.
OnHandled ==
    \E e \in Events :
        /\ ctl' = onGestureEventHead(ctl, e)
        /\ ctlOp' = Handled(IF e.type = "pointerdown" THEN e.type ELSE "event")
        /\ UNCHANGED exceptCtl

\* onGestureEvent for pointerdown, mousedown, touchstart.
OnDown ==
    \E e \in EventsOf(DownTypes) :
        LET k1 == onGestureEventHead(ctl, e)
        IN /\ ctl.press = "up"
           /\ ctl' = [k1 EXCEPT !.press = "down"]
           /\ ctlOp' = Handled(IF e.type = "pointerdown" THEN e.type ELSE "event")
           /\ UNCHANGED exceptCtl

\* onGestureEvent for pointermove, mousemove, touchmove at which the drag or pan
\* recognizer begins or changes. ray is what the ray through the pointer meets.
OnMove(env) ==
    \E e \in EventsOf(MoveTypes), y \in env.ys, ray \in env.rays :
        LET k1 == onGestureEventHead(ctl, e)
            hit == ray # <<>>
            params == Params(IF hit THEN ray[1] ELSE 0, 0)
        IN /\ ctl.press # "up"
           /\ ctl' = IF k1.press = "down"
                     THEN handlePanOrDrag([k1 EXCEPT !.press = "began"], "BEGAN", y, hit, params)
                     ELSE handlePanOrDrag([k1 EXCEPT !.press = "changed"], "CHANGED", y, hit, params)
           /\ ctlOp' = Handled("event")
           /\ UNCHANGED exceptCtl

\* onGestureEvent for a touch move at which the pinch recognizer begins or changes.
OnPinch(env) ==
    \E e \in EventsOf({"pointermove", "touchmove"}), scale \in env.scales,
       amountIsOne \in BOOLEAN, pick \in env.picks, location \in Locs :
        LET k1 == onGestureEventHead(ctl, e)
        IN /\ k1.press # "up"
           /\ e.pointerType # "mouse"
           /\ ctl' = IF k1.pinch = "idle"
                     THEN handlePinch([k1 EXCEPT !.pinch = "active"], "BEGAN",
                                      scale, amountIsOne, pick, location)
                     ELSE handlePinch(k1, "CHANGED", scale, amountIsOne, pick, location)
           /\ ctlOp' = Handled("event")
           /\ UNCHANGED exceptCtl

\* onGestureEvent for pointerup, mouseup, touchend: the recognizers reset, and the
\* fling recognizer may reach Recognized after a drag or pan.
OnUp(env) ==
    \E e \in EventsOf(UpTypes), fling \in BOOLEAN, ray \in env.rays \cup {<<>>} :
        LET k1 == onGestureEventHead(ctl, e)
            k2 == [k1 EXCEPT !.press = "up", !.pinch = "idle"]
        IN /\ ctl.press # "up"
           /\ fling => /\ k1.press \in {"began", "changed"}
                       /\ Cardinality(ctl.frames) < env.pending
           /\ ~fling => ray = <<>>
           /\ ctl' = IF fling THEN handleFling(k2, ray # <<>>) ELSE k2
           /\ ctlOp' = Handled("event")
           /\ UNCHANGED exceptCtl

\* onGestureEvent for wheel.
OnWheel(env) ==
    \E deltaMode \in env.modes, deltaY \in env.deltas, pick \in env.picks, location \in Locs :
        /\ ctl' = handleWheelEvent(ctl, deltaMode, deltaY, pick, location)
        /\ ctl' # ctl
        /\ ctlOp' = Handled("event")
        /\ UNCHANGED exceptCtl

\* The browser runs the pending animation-frame callback of the fling in slot a.
Tick(env, a) ==
    \E f \in ctl.frames, y2 \in env.ys, ray \in env.rays :
        LET k0 == [ctl EXCEPT !.frames = @ \ {f}]
            hit == ray # <<>>
            k1 == animate(k0, f, y2, hit, Params(IF hit THEN ray[1] ELSE 0, 0))
        IN /\ f.anim = a
           /\ ctl' = k1
           /\ ctlOp' = CtlCall("tick", f.kind, f.age < DurationOf(ctl, f),
                               f.kind = "3D" \/ f.lastLocation = ctl.lookAtLocation,
                               \E g \in k1.frames : g.anim = f.anim)
           /\ UNCHANGED exceptCtl

\* Time passes by d ms.
Advance(d) ==
    /\ ctl' = [ctl EXCEPT !.sinceClick = ClockAfter(@, d, AnimationDuration),
                          !.frames = {[f EXCEPT !.age = ClockAfter(@, d, LongestDuration(f))]
                                      : f \in @}]
    /\ ctl' # ctl
    /\ ctlOp' = Handled("event")
    /\ UNCHANGED exceptCtl

\* The application moves the navigator.
NavigatorChanged ==
    \E location \in Locs :
        /\ location # ctl.lookAtLocation
        /\ ctl' = [ctl EXCEPT !.lookAtLocation = location]
        /\ ctlOp' = Handled("event")
        /\ UNCHANGED exceptCtl

NextCtl ==
    \/ OnHandled
    \/ OnDown
    \/ OnMove(FlingInputs)
    \/ OnUp(FlingInputs)
    \/ (\E a \in 1..MaxFrames : Tick(FlingInputs, a))
    \/ (\E d \in FlingInputs.steps : Advance(d))
    \/ NavigatorChanged

NextTimed ==
    \/ OnHandled
    \/ OnDown
    \/ OnMove(TimedInputs)
    \/ OnUp(TimedInputs)
    \/ (\E a \in 1..MaxFrames : Tick(TimedInputs, a))
    \/ (\E d \in TimedInputs.steps : Advance(d))

NextZoom ==
    \/ OnDown
    \/ OnMove(ZoomInputs)
    \/ OnPinch(ZoomInputs)
    \/ OnUp(ZoomInputs)
    \/ OnWheel(ZoomInputs)
    \/ (\E a \in 1..MaxFrames : Tick(ZoomInputs, a))

(***************************************************************************)
(* Heading and tilt gestures: the north-up lock                            *)
(***************************************************************************)

\* Headings and gesture rotations are whole degrees: north, and the headings from
\* just within the tolerance of the north-up lock up to MaxHeading on either side.
\* Tilts are within 0..MaxTilt.
MaxHeading == 11
MaxTilt == 1

NorthUpTolerance == 10

Headings ==
    {h \in (0 - MaxHeading)..MaxHeading : h = 0 \/ h >= NorthUpTolerance - 1
                                                \/ 0 - h >= NorthUpTolerance - 1}
Tilts == 0..MaxTilt

Abs(n) == IF n < 0 THEN 0 - n ELSE n

handleSecondaryDrag_AlwaysNorthUp(k, state, headingDegrees, tiltDegrees) ==
    IF state = "BEGAN"
    THEN [k EXCEPT !.beginHeading = k.heading, !.beginTilt = k.tilt,
                   !.detectNorthUp = FALSE]
    ELSE IF state = "CHANGED"
    THEN IF Abs(k.heading) < NorthUpTolerance /\ k.detectNorthUp
         THEN redraw([k EXCEPT !.tilt = k.beginTilt + tiltDegrees,
                               !.northUpMode = TRUE, !.heading = 0])
         ELSE redraw([k EXCEPT !.tilt = k.beginTilt + tiltDegrees,
                               !.northUpMode = FALSE,
                               !.heading = k.beginHeading + headingDegrees,
                               !.detectNorthUp = @ \/ Abs(k.beginHeading + headingDegrees)
                                                        > NorthUpTolerance])
    ELSE k

handleSecondaryDrag(k, state, headingDegrees, tiltDegrees) ==
    IF state = "BEGAN"
    THEN [k EXCEPT !.beginHeading = k.heading,
                   !.beginTilt = k.tilt,
                   !.detectNorthUp = FALSE]
    ELSE IF state = "CHANGED"
    THEN LET k1 == [k EXCEPT !.tilt = k.beginTilt + tiltDegrees]
             free == k1.beginHeading + headingDegrees
         IN redraw(applyLimits(
              IF k1.isArcBall
              THEN IF Abs(k1.heading) < NorthUpTolerance /\ k1.detectNorthUp
                   THEN [k1 EXCEPT !.northUpMode = k1.keepNorthUp,
                                   !.heading = 0]
                   ELSE [k1 EXCEPT !.northUpMode = FALSE,
                                   !.heading = free,
                                   !.detectNorthUp = IF Abs(free) > NorthUpTolerance
                                                     THEN TRUE ELSE @]
              ELSE [k1 EXCEPT !.heading = free]))
    ELSE k

handleRotation_Unarmed(k, state, rotation) ==
    IF state = "BEGAN"
    THEN [k EXCEPT !.lastRotation = 0, !.detectNorthUp = FALSE]
    ELSE IF state = "CHANGED"
    THEN IF Abs(k.heading) < NorthUpTolerance
         THEN redraw([k EXCEPT !.northUpMode = k.keepNorthUp, !.heading = 0,
                               !.lastRotation = rotation])
         ELSE redraw([k EXCEPT !.northUpMode = FALSE,
                               !.heading = @ - (rotation - k.lastRotation),
                               !.detectNorthUp = TRUE,
                               !.lastRotation = rotation])
    ELSE k

handleRotation_SnapOnce(k, state, rotation) ==
    IF state = "BEGAN"
    THEN [k EXCEPT !.lastRotation = 0, !.detectNorthUp = FALSE]
    ELSE IF state = "CHANGED"
    THEN LET free == k.heading - (rotation - k.lastRotation)
         IN IF Abs(k.heading) < NorthUpTolerance /\ k.detectNorthUp
            THEN redraw([k EXCEPT !.northUpMode = k.keepNorthUp, !.heading = 0,
                                  !.detectNorthUp = FALSE, !.lastRotation = rotation])
            ELSE redraw([k EXCEPT !.northUpMode = FALSE, !.heading = free,
                                  !.detectNorthUp = IF Abs(free) > NorthUpTolerance
                                                    THEN TRUE ELSE @,
                                  !.lastRotation = rotation])
    ELSE k

handleRotation(k, state, rotation) ==
    IF state = "BEGAN"
    THEN [k EXCEPT !.lastRotation = 0,
                   !.detectNorthUp = FALSE]
    ELSE IF state = "CHANGED"
    THEN LET free == k.heading - (rotation - k.lastRotation)
             k1 == IF Abs(k.heading) < NorthUpTolerance /\ k.detectNorthUp
                   THEN [k EXCEPT !.northUpMode = k.keepNorthUp,
                                  !.heading = 0]
                   ELSE [k EXCEPT !.northUpMode = FALSE,
                                  !.heading = free,
                                  !.detectNorthUp = IF Abs(free) > NorthUpTolerance
                                                    THEN TRUE ELSE @]
         IN redraw(applyLimits([k1 EXCEPT !.lastRotation = rotation]))
    ELSE k

handleTilt_NoRedraw(k, state, tiltDegrees) ==
    IF state = "BEGAN"
    THEN [k EXCEPT !.beginTilt = k.tilt]
    ELSE IF state = "CHANGED"
    THEN [applyLimits([k EXCEPT !.tilt = k.beginTilt + tiltDegrees])
          EXCEPT !.northUpMode = FALSE,
                 !.detectNorthUp = TRUE]
    ELSE k

handleTilt(k, state, tiltDegrees) ==
    IF state = "BEGAN"
    THEN [k EXCEPT !.beginTilt = k.tilt]
    ELSE IF state = "CHANGED"
    THEN [redraw(applyLimits([k EXCEPT !.tilt = k.beginTilt + tiltDegrees]))
          EXCEPT !.northUpMode = FALSE,
                 !.detectNorthUp = TRUE]
    ELSE k

\* What the last handler run of a heading or tilt gesture saw: the gesture
\* ("rotation", "secondary", "tilt" or "" between gestures), the recognizer's
\* state, whether the gesture began at heading 0, the heading the handler found, and
\* whether a Changed event of the gesture has left the heading beyond the tolerance.
NorthCall(gesture, state, began, found, exceeded) ==
    [ gesture |-> gesture, state |-> state, began |-> began, found |-> found,
      exceeded |-> exceeded ]

InRange(k) == k.heading \in Headings /\ k.tilt \in Tilts

InitNorthPart ==
    /\ \E keep \in BOOLEAN, arcBall \in BOOLEAN :
         ctl = [BasicWorldWindowController(FALSE, 0)
                EXCEPT !.keepNorthUp = keep, !.isArcBall = arcBall]
    /\ ctlOp = NorthCall("", "POSSIBLE", TRUE, 0, FALSE)

\* gestureStateChanged for the rotation, secondary drag or tilt recognizer
\* reaching Began: one of the three gestures is in progress at a time.
GestureBegan ==
    \E g \in {"rotation", "secondary", "tilt"} :
        /\ ctlOp.gesture = ""
        /\ g = "secondary" => ctl.isArcBall
        /\ ctl' = IF g = "rotation" THEN handleRotation(ctl, "BEGAN", 0)
                  ELSE IF g = "secondary" THEN handleSecondaryDrag(ctl, "BEGAN", 0, 0)
                  ELSE handleTilt(ctl, "BEGAN", 0)
        /\ ctlOp' = NorthCall(g, "BEGAN", ctl.heading = 0, ctl.heading, FALSE)
        /\ UNCHANGED exceptCtl

Exceeds(op, found, k) ==
    NorthCall(op.gesture, "CHANGED", op.began, found,
              op.exceeded \/ Abs(k.heading) > NorthUpTolerance)

RotationChanged ==
    \E rotation \in Headings :
        /\ ctlOp.gesture = "rotation"
        /\ ctl' = handleRotation(ctl, "CHANGED", rotation)
        /\ InRange(ctl')
        /\ ctlOp' = Exceeds(ctlOp, ctl.heading, ctl')
        /\ UNCHANGED exceptCtl

SecondaryDragChanged ==
    \E headingDegrees \in Headings, tiltDegrees \in Tilts :
        /\ ctlOp.gesture = "secondary"
        /\ ctl' = handleSecondaryDrag(ctl, "CHANGED", headingDegrees, tiltDegrees)
        /\ InRange(ctl')
        /\ ctlOp' = Exceeds(ctlOp, ctl.heading, ctl')
        /\ UNCHANGED exceptCtl

TiltChanged ==
    \E tiltDegrees \in Tilts :
        /\ ctlOp.gesture = "tilt"
        /\ ctl' = handleTilt(ctl, "CHANGED", tiltDegrees)
        /\ InRange(ctl')
        /\ ctlOp' = Exceeds(ctlOp, ctl.heading, ctl')
        /\ UNCHANGED exceptCtl

\* The recognizer ends: gestureStateChanged calls the handler, which does nothing
\* in state Ended.
GestureEnded ==
    /\ ctlOp.gesture # ""
    /\ ctl' = IF ctlOp.gesture = "rotation" THEN handleRotation(ctl, "ENDED", 0)
              ELSE IF ctlOp.gesture = "secondary" THEN handleSecondaryDrag(ctl, "ENDED", 0, 0)
              ELSE handleTilt(ctl, "ENDED", 0)
    /\ ctlOp' = NorthCall("", "ENDED", ctlOp.began, ctl.heading, ctlOp.exceeded)
    /\ UNCHANGED exceptCtl

\* gestureStateChanged(recognizer) for the recognizers that move the camera; in
\* holds what the recognizer and the ray computations yield.
gestureStateChanged(k, recognizer, state, in) ==
    IF recognizer \in {"primaryDrag", "pan"}
    THEN IF k.isArcBall
         THEN handlePanOrDrag(k, state, in.y, in.hit, in.params)
         ELSE handleSecondaryDrag(k, state, in.headingDegrees, in.tiltDegrees)
    ELSE IF recognizer = "secondaryDrag"
    THEN IF k.isArcBall
         THEN handleSecondaryDrag(k, state, in.headingDegrees, in.tiltDegrees)
         ELSE k
    ELSE IF recognizer = "rotation" THEN handleRotation(k, state, in.rotation)
    ELSE IF recognizer = "tilt" THEN handleTilt(k, state, in.tiltDegrees)
    ELSE k

\* What a recognizer hands to its handler.
GestureInputs(env) ==
    { [ y |-> y, hit |-> ray # <<>>,
        params |-> Params(IF ray # <<>> THEN ray[1] ELSE 0, t),
        headingDegrees |-> t, tiltDegrees |-> d, rotation |-> 0 ]
      : y \in env.ys, ray \in env.rays, t \in env.turns, d \in env.tilts }

\* The last state change of a recognizer that the controller handled, or the last
\* run of a fling animation: the recognizer's state (for a run of an animation, the
\* function it moves the camera with) and what the geometry handed over.
GestureCall(name, state, in) ==
    [ name |-> name, state |-> state, in |-> in ]

DragCall(state, in) == GestureCall("drag", state, in)

\* Pointer-downs 299, 300 or more ms apart, drags over the globe and beside it,
\* no fling.
ClickInputs ==
    [ ys |-> ClientYs, rays |-> {<<>>, <<1>>}, steps |-> {299, 300, AnimationDuration},
      pending |-> 0, turns |-> {0, MaxHeading}, tilts |-> {0} ]

InitClickPart ==
    /\ \E globe2D \in BOOLEAN, arcBall \in BOOLEAN :
         ctl = [BasicWorldWindowController(globe2D, 0) EXCEPT !.isArcBall = arcBall]
    /\ ctlOp = Handled("new")

\* onGestureEvent for pointermove, mousemove, touchmove at which the primary drag
\* or the pan recognizer begins or changes, under either camera.
OnDrag(env) ==
    \E e \in EventsOf(MoveTypes), in \in GestureInputs(env),
       recognizer \in {"primaryDrag", "pan"} :
        LET k1 == onGestureEventHead(ctl, e)
            state == IF k1.press = "down" THEN "BEGAN" ELSE "CHANGED"
        IN /\ ctl.press # "up"
           /\ (recognizer = "pan") = (e.type = "touchmove" \/ e.pointerType = "touch")
           /\ ctl' = gestureStateChanged(
                       [k1 EXCEPT !.press = IF state = "BEGAN" THEN "began" ELSE "changed"],
                       recognizer, state, in)
           /\ InRange(ctl')
           /\ ctlOp' = DragCall(state, in)
           /\ UNCHANGED exceptCtl

\* Rays that meet the globe and rays that miss it, views tilted by MaxTilt and
\* rotated to MaxHeading, one fling at a time.
RayInputs ==
    [ ys |-> {0}, rays |-> {<<>>, <<1>>}, steps |-> {AnimationDuration},
      pending |-> 1, turns |-> {MaxHeading}, tilts |-> {MaxTilt} ]

InitRayPart ==
    /\ \E globe2D \in BOOLEAN : ctl = BasicWorldWindowController(globe2D, 0)
    /\ ctlOp = Handled("new")

\* onGestureEvent for a touch move at which the tilt recognizer begins or changes.
OnTilt(env) ==
    \E e \in EventsOf({"pointermove", "touchmove"}), in \in GestureInputs(env) :
        LET k1 == onGestureEventHead(ctl, e)
            state == IF ctlOp.name = "tilt" THEN "CHANGED" ELSE "BEGAN"
        IN /\ ctl.press # "up"
           /\ e.pointerType # "mouse"
           /\ ctl' = gestureStateChanged(k1, "tilt", state, in)
           /\ InRange(ctl')
           /\ ctlOp' = GestureCall("tilt", state, in)
           /\ UNCHANGED exceptCtl

\* onGestureEvent for pointerup, mouseup, touchend at which the fling recognizer
\* reaches Recognized after a drag or pan.
OnFling(env) ==
    \E e \in EventsOf(UpTypes), in \in GestureInputs(env) :
        LET k1 == onGestureEventHead(ctl, e)
        IN /\ k1.press \in {"began", "changed"}
           /\ Cardinality(ctl.frames) < env.pending
           /\ ctl' = handleFling([k1 EXCEPT !.press = "up", !.pinch = "idle"], in.hit)
           /\ ctlOp' = GestureCall("fling", "RECOGNIZED", in)
           /\ UNCHANGED exceptCtl

\* The browser runs a pending animation-frame callback.
OnFrame(env) ==
    \E f \in ctl.frames, in \in GestureInputs(env) :
        /\ ctl' = animate([ctl EXCEPT !.frames = @ \ {f}], f, in.y, in.hit, in.params)
        /\ InRange(ctl')
        /\ ctlOp' = GestureCall("tick",
                                IF f.kind = "2D" THEN "move2D"
                                ELSE IF f.kind = "3D" /\ ~f.northUpMode THEN "rotateShpere"
                                ELSE "",
                                in)
        /\ UNCHANGED exceptCtl

\* The WorldWindow draws the frame that redraw() asked for.
Redrawn ==
    /\ ctl.redrawRequested
    /\ ctl' = [ctl EXCEPT !.redrawRequested = FALSE]
    /\ ctlOp' = Handled("event")
    /\ UNCHANGED exceptCtl

\* Drags, pinches, wheel events and flings over the globe and beside it.
RedrawInputs ==
    [ ys |-> {0}, rays |-> {<<>>, <<1>>}, steps |-> {AnimationDuration},
      pending |-> 1, turns |-> {MaxHeading}, tilts |-> {MaxTilt},
      deltas |-> {1}, modes |-> {0}, scales |-> {"pos"}, picks |-> {<<0>>} ]

\* A new controller, or one that has handled a tilt gesture of no translation
\* (which leaves north-up mode) and whose frame has been drawn.
InitRedrawPart ==
    /\ \E globe2D \in BOOLEAN, tilted \in BOOLEAN :
         LET k == BasicWorldWindowController(globe2D, 0)
         IN ctl = IF tilted
                  THEN [handleTilt(handleTilt(k, "BEGAN", 0), "CHANGED", 0)
                        EXCEPT !.redrawRequested = FALSE]
                  ELSE k
    /\ ctlOp = Handled("new")

\* The WorldWindow draws the frame that redraw() asked for, between two events.
FrameDrawn ==
    /\ ctl.redrawRequested
    /\ ctl' = [ctl EXCEPT !.redrawRequested = FALSE]
    /\ UNCHANGED <<ctlOp, exceptCtl>>

\* Whether the session is one of rotation, secondary drag and tilt gestures.
HeadingGestures == "gesture" \in DOMAIN ctlOp

NextRay ==
    \/ OnDown
    \/ OnDrag(RayInputs)
    \/ OnTilt(RayInputs)
    \/ OnUp([RayInputs EXCEPT !.pending = 0])
    \/ OnFling(RayInputs)
    \/ OnFrame(RayInputs)
    \/ (\E d \in RayInputs.steps : Advance(d))
    \/ Redrawn

NextClick ==
    \/ OnHandled
    \/ OnDown
    \/ OnDrag(ClickInputs)
    \/ OnUp(ClickInputs)
    \/ (\E d \in ClickInputs.steps : Advance(d))

\* Pointer-downs 299 ms or longer apart, drags and flings over the globe and beside
\* it, one fling at a time.
LatchInputs ==
    [ ys |-> {0}, rays |-> {<<>>, <<1>>}, steps |-> {299, AnimationDuration},
      pending |-> 1, turns |-> {0}, tilts |-> {0} ]

NextLatch ==
    \/ OnHandled
    \/ OnDown
    \/ OnDrag(LatchInputs)
    \/ OnUp([LatchInputs EXCEPT !.pending = 0])
    \/ OnFling(LatchInputs)
    \/ OnFrame(LatchInputs)
    \/ (\E d \in LatchInputs.steps : Advance(d))

NextNorth ==
    \/ GestureBegan
    \/ RotationChanged
    \/ SecondaryDragChanged
    \/ TiltChanged
    \/ GestureEnded

\* What the last handler run of a session of heading gestures and pans saw: the
\* heading gesture in progress ("rotation", "secondary", "tilt" or ""), the handler
\* and the recognizer's state, whether a pan is in progress, and whether the north-up
\* snap has fired with no Began event having reset detectNorthUp since.
TwistCall(gesture, name, state, panning, snapped) ==
    [ gesture |-> gesture, name |-> name, state |-> state, panning |-> panning,
      snapped |-> snapped ]

\* Pans over the globe, whose rotated view has heading 0 or MaxHeading.
TwistInputs ==
    [ ys |-> {0}, rays |-> {<<0>>}, steps |-> {}, pending |-> 0,
      turns |-> {0, MaxHeading}, tilts |-> {0} ]

InitTwistPart ==
    /\ \E keep \in BOOLEAN, arcBall \in BOOLEAN :
         ctl = [BasicWorldWindowController(FALSE, 0)
                EXCEPT !.keepNorthUp = keep, !.isArcBall = arcBall]
    /\ ctlOp = TwistCall("", "new", "POSSIBLE", FALSE, FALSE)

\* Whether a Changed event of the rotation or the secondary drag recognizer that
\* finds the controller as k takes the snap branch.
SnapFires(k, g) ==
    /\ g = "rotation" \/ (g = "secondary" /\ k.isArcBall)
    /\ Abs(k.heading) < NorthUpTolerance
    /\ k.detectNorthUp

\* The rotation recognizer (touch), the secondary drag recognizer (mouse, handled
\* under the arc-ball camera only) or the tilt recognizer (touch) reaches Began.
\* Tilt must have failed for the pan to be in progress.
TwistBegan ==
    \E g \in {"rotation", "secondary", "tilt"} :
        /\ ctlOp.gesture = ""
        /\ g # "rotation" => ~ctlOp.panning
        /\ g = "secondary" => ctl.isArcBall
        /\ ctl' = gestureStateChanged(ctl, IF g = "secondary" THEN "secondaryDrag" ELSE g,
                                      "BEGAN", CHOOSE in \in GestureInputs(TwistInputs) : TRUE)
        /\ ctlOp' = TwistCall(g, g, "BEGAN", ctlOp.panning,
                              ctlOp.snapped /\ ctl'.detectNorthUp)
        /\ UNCHANGED exceptCtl

TwistChanged ==
    \E rotation \in Headings, headingDegrees \in Headings, tiltDegrees \in TwistInputs.tilts :
        LET g == ctlOp.gesture
        IN /\ g # ""
           /\ ctl' = gestureStateChanged(ctl, IF g = "secondary" THEN "secondaryDrag" ELSE g,
                                         "CHANGED",
                                         [ y |-> 0, hit |-> TRUE, params |-> Params(0, 0),
                                           headingDegrees |-> headingDegrees,
                                           tiltDegrees |-> tiltDegrees,
                                           rotation |-> rotation ])
           /\ InRange(ctl')
           /\ ctlOp' = TwistCall(g, g, "CHANGED", ctlOp.panning,
                                 ctlOp.snapped \/ SnapFires(ctl, g))
           /\ UNCHANGED exceptCtl

TwistEnded ==
    /\ ctlOp.gesture # ""
    /\ ctl' = ctl
    /\ ctlOp' = TwistCall("", ctlOp.gesture, "ENDED", ctlOp.panning, ctlOp.snapped)
    /\ UNCHANGED exceptCtl

\* The pan recognizer begins, changes and ends, on its own or beside a rotation.
PanBeside ==
    \E in \in GestureInputs(TwistInputs), state \in {"BEGAN", "CHANGED", "ENDED"} :
        /\ ctlOp.gesture \in {"", "rotation"}
        /\ ctlOp.panning = (state # "BEGAN")
        /\ ctl' = gestureStateChanged(ctl, "pan", state, in)
        /\ InRange(ctl')
        /\ ctlOp' = TwistCall(ctlOp.gesture, "pan", state, state # "ENDED",
                              ctlOp.snapped /\ (state = "BEGAN" => ctl'.detectNorthUp))
        /\ UNCHANGED exceptCtl

NextTwist ==
    \/ TwistBegan
    \/ TwistChanged
    \/ TwistEnded
    \/ PanBeside

\* A session of rotation, secondary drag and tilt gestures, or a session of drags,
\* pinches, wheel events and flings; frames are drawn in between.
NextRedraw ==
    \/ (HeadingGestures /\ NextNorth)
    \/ (~HeadingGestures /\ OnDown)
    \/ (~HeadingGestures /\ OnDrag(RedrawInputs))
    \/ (~HeadingGestures /\ OnPinch(RedrawInputs))
    \/ (~HeadingGestures /\ OnWheel(RedrawInputs))
    \/ (~HeadingGestures /\ OnUp([RedrawInputs EXCEPT !.pending = 0]))
    \/ (~HeadingGestures /\ OnFling(RedrawInputs))
    \/ (~HeadingGestures /\ OnFrame(RedrawInputs))
    \/ FrameDrawn



\* What the last step of a long-click session did: the type of the event handled
\* ("tick" for a run of an animation, "clock" when time passed), whether a
\* pointerdown was handled before it, how many pointermoves were handled since the
\* last pointerdown (2 for two or more), and for a tick the kind and age of the
\* animation and whether it was scheduled again.
LongCall(type, downSeen, moves, kind, age, rescheduled) ==
    [ type |-> type, downSeen |-> downSeen, moves |-> moves,
      kind |-> kind, age |-> age, rescheduled |-> rescheduled ]

InitLongPart ==
    /\ \E globe2D \in BOOLEAN : ctl = BasicWorldWindowController(globe2D, 0)
    /\ ctlOp = LongCall("new", FALSE, 0, "", 0, FALSE)

\* onGestureEvent for any event, whatever the recognizers make of it.
LongEvent ==
    \E e \in Events :
        /\ ctl' = onGestureEventHead(ctl, e)
        /\ ctlOp' = LongCall(e.type,
                             ctlOp.downSeen \/ e.type = "pointerdown",
                             IF e.type = "pointerdown" THEN 0
                             ELSE IF e.type = "pointermove" THEN Min(ctlOp.moves + 1, 2)
                             ELSE ctlOp.moves,
                             "", 0, FALSE)
        /\ UNCHANGED exceptCtl

\* The fling recognizer reaches Recognized at the end of a drag or pan.
LongFling ==
    \E e \in EventsOf(UpTypes) :
        /\ ctl.frames = {}
        /\ ctl' = handleFling(onGestureEventHead(ctl, e), TRUE)
        /\ ctlOp' = LongCall(e.type, ctlOp.downSeen, ctlOp.moves, "", 0, FALSE)
        /\ UNCHANGED exceptCtl

\* The browser runs the pending animation-frame callback.
LongTick ==
    \E f \in ctl.frames :
        LET k1 == animate([ctl EXCEPT !.frames = @ \ {f}], f, 0, TRUE, Params(0, 0))
        IN /\ ctl' = k1
           /\ ctlOp' = LongCall("tick", ctlOp.downSeen, ctlOp.moves, f.kind, f.age,
                                \E g \in k1.frames : g.anim = f.anim)
           /\ UNCHANGED exceptCtl

\* Time passes by d ms.
LongAdvance ==
    \E d \in TimeSteps :
        /\ ctl' = [ctl EXCEPT !.sinceClick = ClockAfter(@, d, AnimationDuration),
                              !.frames = {[f EXCEPT !.age = ClockAfter(@, d, LongestDuration(f))]
                                          : f \in @}]
        /\ ctl' # ctl
        /\ ctlOp' = LongCall("clock", ctlOp.downSeen, ctlOp.moves, "", 0, FALSE)
        /\ UNCHANGED exceptCtl

NextLong ==
    \/ LongEvent
    \/ LongFling
    \/ LongTick
    \/ LongAdvance

(***************************************************************************)
(* DragRecognizer and PanRecognizer                                        *)
(***************************************************************************)

\* Largest number of simultaneous touches.
MaxTouches == 2

DragInterpretDistance == 3
PanInterpretDistance == 20
\* Stands for Number.MAX_VALUE, above every touch count.
NumberMaxValue == 1000000

Buttons == {0, 2}
\* The translations (translationX, translationY) a move event can produce.
Translations == {<<0, 0>>, <<3, 0>>, <<3, 1>>, <<12, 16>>, <<12, 17>>}

\* 1 << button
Bit(button) == 2 ^ button

HasBit(mask, button) == (mask \div Bit(button)) % 2 = 1

\* new DragRecognizer(target, callback), then configured.
DragRecognizer(button, numberOfClicks) ==
    [ state |-> "Possible", mouseButtonMask |-> 0, touchCount |-> 0,
      translationX |-> 0, translationY |-> 0,
      timeout |-> 0, timers |-> {},
      button |-> button, interpretDistance |-> DragInterpretDistance,
      numberOfClicks |-> numberOfClicks, clickCounter |-> 0 ]

\* new PanRecognizer(target, callback), then configured.
PanRecognizer(numberOfTaps, minNumberOfTouches, maxNumberOfTouches) ==
    [ state |-> "Possible", mouseButtonMask |-> 0, touchCount |-> 0,
      translationX |-> 0, translationY |-> 0,
      timeout |-> 0, timers |-> {},
      minNumberOfTouches |-> minNumberOfTouches,
      maxNumberOfTouches |-> maxNumberOfTouches,
      interpretDistance |-> PanInterpretDistance,
      numberOfTaps |-> numberOfTaps, tapCounter |-> 0 ]

\* window.setTimeout: a handle (non-zero) that no pending timer has.
FreeTimer(r) == CHOOSE h \in 1..(Cardinality(r.timers) + 1) : h \notin r.timers

failAfterDelay_KeepsPending(r) ==
    LET h == FreeTimer(r)
    IN [r EXCEPT !.timeout = h, !.timers = @ \cup {h}]

\* failAfterDelay(delay), of both recognizers.
failAfterDelay(r) ==
    LET r1 == IF r.timeout # 0 THEN [r EXCEPT !.timers = @ \ {r.timeout}] ELSE r
        h == FreeTimer(r1)
    IN [r1 EXCEPT !.timeout = h, !.timers = @ \cup {h}]

\* cancelFailAfterDelay(), of both recognizers.
cancelFailAfterDelay(r) ==
    IF r.timeout # 0 THEN [r EXCEPT !.timers = @ \ {r.timeout}, !.timeout = 0] ELSE r

\* The function failAfterDelay hands to setTimeout, run for handle h.
timeoutCallback(r, h) ==
    LET r1 == [r EXCEPT !.timers = @ \ {h}, !.timeout = 0]
    IN IF r1.state = "Possible" \/ r1.state = "Began"
       THEN [r1 EXCEPT !.state = "Failed"] ELSE r1

\* GestureRecognizer.prototype.reset
baseReset(r) ==
    [r EXCEPT !.state = "Possible", !.mouseButtonMask = 0, !.touchCount = 0,
              !.translationX = 0, !.translationY = 0]

DragReset(r) == cancelFailAfterDelay([baseReset(r) EXCEPT !.clickCounter = 0])

PanReset(r) == cancelFailAfterDelay([baseReset(r) EXCEPT !.tapCounter = 0])

DragMouseDown(r, button) ==
    IF r.state # "Possible" THEN r
    ELSE IF r.button # button THEN [r EXCEPT !.state = "Failed"]
    ELSE LET r1 == [r EXCEPT !.clickCounter = @ + 1]
             r2 == IF r1.numberOfClicks > 1 THEN failAfterDelay(r1) ELSE r1
         IN IF r2.clickCounter > r2.numberOfClicks
            THEN [r2 EXCEPT !.state = "Failed"] ELSE r2

DragShouldInterpret_AtDistance(r) ==
    /\ r.translationX * r.translationX + r.translationY * r.translationY
         >= r.interpretDistance * r.interpretDistance
    /\ r.numberOfClicks = r.clickCounter

\* Math.sqrt(dx * dx + dy * dy) > interpretDistance && numberOfClicks == clickCounter
DragShouldInterpret(r) ==
    /\ r.translationX * r.translationX + r.translationY * r.translationY
         > r.interpretDistance * r.interpretDistance
    /\ r.numberOfClicks = r.clickCounter

DragShouldRecognize(r) == Bit(r.button) = r.mouseButtonMask

DragMouseMove(r) ==
    IF r.state = "Possible"
    THEN IF DragShouldInterpret(r) /\ DragShouldRecognize(r)
         THEN [r EXCEPT !.translationX = 0, !.translationY = 0, !.state = "Began"]
         ELSE r
    ELSE IF r.state = "Began" \/ r.state = "Changed"
    THEN [r EXCEPT !.state = "Changed"]
    ELSE r

DragMouseUp(r) == r

DragTouchStart_Ignored(r) == r

DragTouchStart(r) ==
    IF r.state = "Possible" THEN [r EXCEPT !.state = "Failed"] ELSE r

PanMouseDown(r) ==
    IF r.state = "Possible" THEN [r EXCEPT !.state = "Failed"] ELSE r

PanShouldRecognize(r) ==
    /\ r.touchCount # 0
    /\ r.touchCount >= r.minNumberOfTouches
    /\ r.touchCount <= r.maxNumberOfTouches

PanShouldInterpret_Farther(r) ==
    /\ r.translationX * r.translationX + r.translationY * r.translationY
         > 4 * r.interpretDistance * r.interpretDistance
    /\ r.numberOfTaps = r.tapCounter

PanShouldInterpret(r) ==
    /\ r.translationX * r.translationX + r.translationY * r.translationY
         > r.interpretDistance * r.interpretDistance
    /\ r.numberOfTaps = r.tapCounter

PanTouchStart(r) ==
    IF r.state # "Possible" THEN r
    ELSE IF PanShouldRecognize(r)
    THEN LET r1 == [r EXCEPT !.tapCounter = @ + 1]
             r2 == IF r1.numberOfTaps > 1 THEN failAfterDelay(r1) ELSE r1
         IN IF r2.tapCounter > r2.numberOfTaps
            THEN [r2 EXCEPT !.state = "Failed"] ELSE r2
    ELSE r

PanTouchMove(r) ==
    IF r.state = "Possible"
    THEN IF PanShouldInterpret(r) /\ PanShouldRecognize(r)
         THEN [r EXCEPT !.state = "Began"]
         ELSE r
    ELSE IF r.state = "Began" \/ r.state = "Changed"
    THEN [r EXCEPT !.state = "Changed"]
    ELSE r

PanTouchEnd(r) == r

PanTouchCancel(r) ==
    IF r.touchCount = 0
    THEN IF r.state = "Possible" THEN [r EXCEPT !.state = "Failed"]
         ELSE IF r.state = "Began" \/ r.state = "Changed"
         THEN [r EXCEPT !.state = "Cancelled"]
         ELSE r
    ELSE r

\* The recognizer has left Possible and no button or touch is down any more.
EventsEnded(r) ==
    r.state # "Possible" /\ r.mouseButtonMask = 0 /\ r.touchCount = 0

\* GestureRecognizer's handling of the raw events, before and after the subclass
\* method is called.
baseMouseDown(r, button) ==
    IF HasBit(r.mouseButtonMask, button) THEN r
    ELSE [r EXCEPT !.mouseButtonMask = @ + Bit(button),
                   !.translationX = IF r.mouseButtonMask = 0 THEN 0 ELSE @,
                   !.translationY = IF r.mouseButtonMask = 0 THEN 0 ELSE @]

baseMouseUp(r, button) ==
    IF HasBit(r.mouseButtonMask, button)
    THEN [r EXCEPT !.mouseButtonMask = @ - Bit(button)] ELSE r

baseMove(r, t) == [r EXCEPT !.translationX = t[1], !.translationY = t[2]]

baseTouchStart(r) ==
    [r EXCEPT !.touchCount = @ + 1,
              !.translationX = IF r.touchCount = 0 THEN 0 ELSE @,
              !.translationY = IF r.touchCount = 0 THEN 0 ELSE @]

baseTouchEnd(r) == [r EXCEPT !.touchCount = @ - 1]

\* The record of an event delivery: the states before it, the translation it
\* carried, and whether it ended in reset().
RecCall(name, t, d, p, dragReset, panReset) ==
    [ name |-> name, tx |-> t[1], ty |-> t[2], drag |-> d.state, pan |-> p.state,
      dragReset |-> dragReset, panReset |-> panReset ]

InitRecPart ==
    /\ \E button \in Buttons, numberOfClicks \in {1, 2} :
           drag = DragRecognizer(button, numberOfClicks)
    /\ \E numberOfTaps \in {1, 2}, touches \in {<<1, NumberMaxValue>>, <<2, 2>>} :
           pan = PanRecognizer(numberOfTaps, touches[1], touches[2])
    /\ recOp = RecCall("new", <<0, 0>>, drag, pan, FALSE, FALSE)

MouseDown ==
    \E button \in Buttons :
        /\ ~HasBit(drag.mouseButtonMask, button)
        /\ drag' = DragMouseDown(baseMouseDown(drag, button), button)
        /\ pan' = PanMouseDown(baseMouseDown(pan, button))
        /\ recOp' = RecCall("mouseDown", <<0, 0>>, drag, pan, FALSE, FALSE)
        /\ UNCHANGED exceptRec

MouseMove ==
    \E t \in Translations :
        /\ drag.mouseButtonMask # 0
        /\ drag' = DragMouseMove(baseMove(drag, t))
        /\ pan' = baseMove(pan, t)
        /\ recOp' = RecCall("mouseMove", t, drag, pan, FALSE, FALSE)
        /\ UNCHANGED exceptRec

MouseUp ==
    \E button \in Buttons :
        /\ HasBit(drag.mouseButtonMask, button)
        /\ LET d == DragMouseUp(baseMouseUp(drag, button))
               p == baseMouseUp(pan, button)
           IN /\ drag' = IF EventsEnded(d) THEN DragReset(d) ELSE d
              /\ pan' = IF EventsEnded(p) THEN PanReset(p) ELSE p
              /\ recOp' = RecCall("mouseUp", <<0, 0>>, drag, pan,
                                  EventsEnded(d), EventsEnded(p))
              /\ UNCHANGED exceptRec

TouchStart ==
    /\ pan.touchCount < MaxTouches
    /\ drag' = DragTouchStart(baseTouchStart(drag))
    /\ pan' = PanTouchStart(baseTouchStart(pan))
    /\ recOp' = RecCall("touchStart", <<0, 0>>, drag, pan, FALSE, FALSE)
    /\ UNCHANGED exceptRec

TouchMove ==
    \E t \in Translations :
        /\ pan.touchCount > 0
        /\ drag' = baseMove(drag, t)
        /\ pan' = PanTouchMove(baseMove(pan, t))
        /\ recOp' = RecCall("touchMove", t, drag, pan, FALSE, FALSE)
        /\ UNCHANGED exceptRec

TouchEnd ==
    /\ pan.touchCount > 0
    /\ LET d == baseTouchEnd(drag)
           p == PanTouchEnd(baseTouchEnd(pan))
       IN /\ drag' = IF EventsEnded(d) THEN DragReset(d) ELSE d
          /\ pan' = IF EventsEnded(p) THEN PanReset(p) ELSE p
          /\ recOp' = RecCall("touchEnd", <<0, 0>>, drag, pan,
                              EventsEnded(d), EventsEnded(p))
          /\ UNCHANGED exceptRec

TouchCancel ==
    /\ pan.touchCount > 0
    /\ LET d == baseTouchEnd(drag)
           p == PanTouchCancel(baseTouchEnd(pan))
       IN /\ drag' = IF EventsEnded(d) THEN DragReset(d) ELSE d
          /\ pan' = IF EventsEnded(p) THEN PanReset(p) ELSE p
          /\ recOp' = RecCall("touchCancel", <<0, 0>>, drag, pan,
                              EventsEnded(d), EventsEnded(p))
          /\ UNCHANGED exceptRec

DragTimeout ==
    \E h \in drag.timers :
        /\ drag' = timeoutCallback(drag, h)
        /\ pan' = pan
        /\ recOp' = RecCall("dragTimeout", <<0, 0>>, drag, pan, FALSE, FALSE)
        /\ UNCHANGED exceptRec

PanTimeout ==
    \E h \in pan.timers :
        /\ pan' = timeoutCallback(pan, h)
        /\ drag' = drag
        /\ recOp' = RecCall("panTimeout", <<0, 0>>, drag, pan, FALSE, FALSE)
        /\ UNCHANGED exceptRec

NextRec ==
    \/ MouseDown
    \/ MouseMove
    \/ MouseUp
    \/ TouchStart
    \/ TouchMove
    \/ TouchEnd
    \/ TouchCancel
    \/ DragTimeout
    \/ PanTimeout

(***************************************************************************)
(* Arbitration between the touch recognizers of the controller             *)
(***************************************************************************)

TouchRecognizers == {"pan", "pinch", "rotation", "tilt"}

\* a.requireRecognizerToFail(b), as the controller's constructor calls it: <<a, b>>.
RequiresFailureOf_PanOnly == {<<"pan", "tilt">>}

RequiresFailureOf ==
    {<<"pan", "tilt">>, <<"pinch", "tilt">>, <<"rotation", "tilt">>}

\* a.recognizeSimultaneouslyWith(b), among the touch recognizers; the relation is
\* symmetric.
RecognizesSimultaneouslyWith ==
    {{"pan", "pinch"}, {"pan", "rotation"}, {"pinch", "rotation"}}

\* The fewest touches a recognizer interprets.
MinTouches(r) == IF r \in {"pinch", "rotation"} THEN 2 ELSE 1

\* The touch recognizers after construction: all Possible, no touch down.
ArbitrationGraph ==
    [ state |-> [r \in TouchRecognizers |-> "Possible"], touchCount |-> 0 ]

\* The recognizers r must see fail before it may begin.
Blockers(r) == {b \in TouchRecognizers : <<r, b>> \in RequiresFailureOf}

\* Another recognizer, not simultaneous with r, has begun.
Prevented(a, r) ==
    \E o \in TouchRecognizers \ {r} :
        /\ {r, o} \notin RecognizesSimultaneouslyWith
        /\ a.state[o] \in {"Began", "Changed"}

\* Recognizer r, in Possible, has met its threshold: it begins unless another
\* recognizer prevents it (it fails) or one of its blockers has not failed (it
\* stays Possible).
tryToBegin(a, r) ==
    IF Prevented(a, r) THEN [a EXCEPT !.state[r] = "Failed"]
    ELSE IF \E b \in Blockers(r) : a.state[b] # "Failed" THEN a
    ELSE [a EXCEPT !.state[r] = "Began"]

\* The last touch is gone: every recognizer is reset to Possible.
resetIfEventsEnded(a) ==
    IF a.touchCount = 0
    THEN [a EXCEPT !.state = [r \in TouchRecognizers |-> "Possible"]]
    ELSE a

InitArbPart == arb = ArbitrationGraph

ArbTouchStart ==
    /\ arb.touchCount < MaxTouches
    /\ arb' = [arb EXCEPT !.touchCount = @ + 1]
    /\ UNCHANGED exceptArb

\* A touch move at which recognizer r, in Possible, meets its threshold.
ArbBegin ==
    \E r \in TouchRecognizers :
        /\ arb.state[r] = "Possible"
        /\ arb.touchCount >= MinTouches(r)
        /\ arb' = tryToBegin(arb, r)
        /\ UNCHANGED exceptArb

\* A touch move at which recognizer r, in Possible, rules its gesture out.
ArbFail ==
    \E r \in TouchRecognizers :
        /\ arb.state[r] = "Possible"
        /\ arb.touchCount > 0
        /\ arb' = [arb EXCEPT !.state[r] = "Failed"]
        /\ UNCHANGED exceptArb

\* A touch move that a recognizer which has begun follows.
ArbChange ==
    \E r \in TouchRecognizers :
        /\ arb.state[r] \in {"Began", "Changed"}
        /\ arb' = [arb EXCEPT !.state[r] = "Changed"]
        /\ UNCHANGED exceptArb

ArbTouchEnd ==
    /\ arb.touchCount > 0
    /\ arb' = resetIfEventsEnded([arb EXCEPT !.touchCount = @ - 1])
    /\ UNCHANGED exceptArb

NextArb ==
    \/ ArbTouchStart
    \/ ArbBegin
    \/ ArbFail
    \/ ArbChange
    \/ ArbTouchEnd

(***************************************************************************)
(* GridParticleProgram, GridParticleSimProgram and renderToTexture         *)
(***************************************************************************)

\* Largest number of loader calls followed in one behaviour of SpecUniform.
MaxLoads == 2

\* Values are followed by what they are: a number or array ("1"), a texture unit,
\* or a missing value.
Missing == {"null", "undefined"}
Numbers == {"1"}
TextureUnits == {"TEXTURE0", "TEXTURE1", "TEXTURE2"}

MODE_TEX_COPY_FADE == "0"
MODE_DRAW_PARTICLES == "1"

\* A loader: the number of value arguments, whether it tests them against null
\* before it calls gl.uniform*, and whether the argument is a texture unit.
Loader(arity, checked, sampler) ==
    [ arity |-> arity, checked |-> checked, sampler |-> sampler ]

GridParticleProgram ==
    [ loadSimParticleSamper |-> Loader(1, FALSE, TRUE),
      loadSimTextureDimension |-> Loader(1, TRUE, FALSE),
      loadDrawMode |-> Loader(1, FALSE, FALSE),
      loadTileOrColorsSampler |-> Loader(1, FALSE, TRUE),
      loadFadeOpacity |-> Loader(1, TRUE, FALSE),
      loadGridSampler |-> Loader(1, FALSE, TRUE),
      loadGridMinMax |-> Loader(4, TRUE, FALSE),
      loadBbox |-> Loader(1, TRUE, FALSE) ]

GridParticleSimProgram ==
    [ loadGridDimensions |-> Loader(2, TRUE, FALSE),
      loadGridMinMax |-> Loader(4, TRUE, FALSE),
      loadRandSeed |-> Loader(1, TRUE, FALSE),
      loadSpeedFactor |-> Loader(1, TRUE, FALSE),
      loadDropRate |-> Loader(1, TRUE, FALSE),
      loadDropRateMultiplier |-> Loader(1, TRUE, FALSE),
      loadBbox |-> Loader(1, TRUE, FALSE),
      loadGridSampler |-> Loader(1, FALSE, TRUE),
      loadParticleSamper |-> Loader(1, FALSE, TRUE) ]

Programs ==
    [ GridParticleProgram |-> GridParticleProgram,
      GridParticleSimProgram |-> GridParticleSimProgram ]

\* unit - gl.TEXTURE0, for gl.TEXTURE0 = 33984.
UnitMinusTexture0(unit) ==
    IF unit = "undefined" THEN "NaN"
    ELSE IF unit = "null" THEN "-33984"
    ELSE IF unit = "TEXTURE0" THEN "0"
    ELSE IF unit = "TEXTURE1" THEN "1"
    ELSE "2"

\* this.waitTime, in milliseconds
waitTime == 334

\* The keys of the three pairs of framebuffer pairs in the GPU resource cache.
GroundKeys == {"ground", "ground1", "ground2"}
SimKeys == {"sim", "sim1", "sim2"}

\* The WebGL context after the two programs are linked, with an empty GPU resource
\* cache, and a new GriddedDataLayer: what gl.uniform* received last for each
\* uniform (<<>> for nothing yet), the program and the framebuffer in use, the
\* framebuffer pairs of the cache (<<>> for none), the ArgumentError in flight,
\* whether the last loader called gl.uniform*, the steps that the renderToTexture
\* call in progress has taken, the layer's _requiresFboClear,
\* Date.now() - _lastGroundFboClear (waitTime + 1 for any larger value; the
\* constructor sets _lastGroundFboClear = 0), and whether the camera or the
\* layer's particle count or colors have changed since the layer last rendered.
GlContext ==
    [ uniform |-> [p \in DOMAIN Programs |-> [n \in DOMAIN Programs[p] |-> <<>>]],
      program |-> "none",
      framebuffer |-> <<>>,
      resources |-> [key \in GroundKeys \cup SimKeys |-> <<>>],
      thrown |-> "none",
      issued |-> FALSE,
      steps |-> <<>>,
      requiresFboClear |-> FALSE,
      sinceClear |-> waitTime + 1,
      invalidated |-> FALSE,
      \* dc.terrain of the frame; the layer's gridData (whether it is set),
      \* _gridDataUrl (whether it is set) and _loadInProgress; the XMLHttpRequests
      \* sent and not completed; whether the last doRender called loadGridData
      terrain |-> TRUE,
      gridData |-> FALSE,
      gridDataUrl |-> TRUE,
      loadInProgress |-> FALSE,
      requests |-> 0,
      loadCalled |-> FALSE,
      \* the active texture unit and the texture bound to each unit, as the pair
      \* (or the single texture) it belongs to and its name; whether the cache
      \* holds the grid texture and the colors texture; the draw calls of the frame;
      \* the texture that bind(dc) handed to the surface tile renderer in the frame
      activeTexture |-> "TEXTURE0",
      units |-> [u \in TextureUnits |-> <<>>],
      cached |-> [grid |-> FALSE, colors |-> FALSE],
      draws |-> <<>>,
      handed |-> <<>> ]

\* A call of the loader name of program with the values args.
load(g, program, name, args) ==
    LET l == Programs[program][name]
    IN IF g.thrown # "none" THEN g
       ELSE IF l.checked /\ \E i \in 1..l.arity : args[i] \in Missing
       THEN [g EXCEPT !.thrown = "ArgumentError", !.issued = FALSE]
       ELSE [g EXCEPT !.uniform[program][name] =
                          IF l.sampler THEN <<UnitMinusTexture0(args[1])>> ELSE args,
                      !.issued = TRUE]

\* The values a caller can hand to a loader.
ArgsOf(l) ==
    [1..l.arity -> (IF l.sampler THEN TextureUnits ELSE Numbers) \cup Missing]

\* The call made last: its name, the program, the values, and how many calls were
\* made.
GpuCall(name, program, args, count) ==
    [ name |-> name, program |-> program, args |-> args, count |-> count ]

InitUniformPart ==
    /\ gpu = GlContext
    /\ gpuOp = GpuCall("new", "none", <<>>, 0)

\* A caller catches the error of the call before, if any, and calls a loader.
LoadUniform ==
    \E p \in DOMAIN Programs :
        \E n \in DOMAIN Programs[p] :
            \E args \in ArgsOf(Programs[p][n]) :
                /\ gpuOp.count < MaxLoads
                /\ gpu' = load([gpu EXCEPT !.thrown = "none"], p, n, args)
                /\ gpuOp' = GpuCall(n, p, args, gpuOp.count + 1)
                /\ UNCHANGED exceptGpu

NextUniform == LoadUniform

\* Frames rendered on one pair of framebuffers.
MaxRenders == 2

\* The key of the ground pair and of the sim pair for dc.globe.offset.
GroundKey(offset) ==
    IF offset = 1 THEN "ground1" ELSE IF offset = -1 THEN "ground2" ELSE "ground"

SimKey(offset) ==
    IF offset = 1 THEN "sim1" ELSE IF offset = -1 THEN "sim2" ELSE "sim"

\* gpuResourceCache.resourceForKey(key), for a key that has a resource.
resourceForKey(g, key) == g.resources[key][1]

\* gl.activeTexture(unit)
activeTexture(g, unit) == [g EXCEPT !.activeTexture = unit]

\* gl.bindTexture(gl.TEXTURE_2D, texture), for the texture named texture of owner:
\* it is bound to the active unit.
bindTexture(g, owner, texture) ==
    [g EXCEPT !.units[g.activeTexture] = <<owner, texture>>]

\* createTexture(dc, data, options): the new texture is bound for the upload, and
\* stays bound.
createTexture(g, owner, texture) == bindTexture(g, owner, texture)

createGridTexture(g) ==
    [createTexture(g, "grid", "grid") EXCEPT !.cached.grid = TRUE]

createColorsTexture(g) ==
    [createTexture(g, "colors", "colors") EXCEPT !.cached.colors = TRUE]

\* createSimFbo, createGroundFbo: two textures holding random particles, or zeroes.
createSimFbo(g, key) ==
    [createTexture(createTexture(g, key, "texture1"), key, "texture2")
        EXCEPT !.resources[key] = <<DoubleBufferedFbo("data", "data")>>]

createGroundFbo(g, key) ==
    [createTexture(createTexture(g, key, "texture1"), key, "texture2")
        EXCEPT !.resources[key] = <<DoubleBufferedFbo("zero", "zero")>>]

\* What a draw call draws: the pass of the program in use.
Pass(g) ==
    IF g.program = "GridParticleSimProgram" THEN "simulation"
    ELSE IF g.program # "GridParticleProgram" THEN "none"
    ELSE IF g.uniform[g.program].loadDrawMode = <<MODE_TEX_COPY_FADE>> THEN "copy-fade"
    ELSE IF g.uniform[g.program].loadDrawMode = <<MODE_DRAW_PARTICLES>> THEN "particles"
    ELSE "none"

\* The texture bound to the unit that a sampler uniform holds.
TextureAt(g, sampler) ==
    IF sampler = <<"0">> THEN g.units["TEXTURE0"]
    ELSE IF sampler = <<"1">> THEN g.units["TEXTURE1"]
    ELSE IF sampler = <<"2">> THEN g.units["TEXTURE2"]
    ELSE <<>>

\* The texture of a framebuffer pair that a draw call samples: the tile texture of
\* the copy pass, the particle texture of the other two.
Sampled(g) ==
    IF Pass(g) = "copy-fade"
    THEN TextureAt(g, g.uniform[g.program].loadTileOrColorsSampler)
    ELSE IF Pass(g) = "particles"
    THEN TextureAt(g, g.uniform[g.program].loadSimParticleSamper)
    ELSE IF Pass(g) = "simulation"
    THEN TextureAt(g, g.uniform[g.program].loadParticleSamper)
    ELSE <<>>

\* The texture attached to the framebuffer that is bound.
Attached(fbo) ==
    IF fbo.boundFramebuffer \in Fbos THEN fbo.attachment[fbo.boundFramebuffer]
    ELSE "none"

\* A draw call: its pass, the pair whose framebuffer is bound, the texture drawn
\* into, the pair's primary and secondary texture, and the texture sampled.
Draw(pass, target, fbo, read) ==
    [ pass |-> pass, target |-> target, written |-> Attached(fbo),
      primaryTexture |-> getPrimaryTexture(fbo),
      secondaryTexture |-> getSecondaryTexture(fbo),
      read |-> read ]

\* One statement of renderToTexture, on the pair with the given key where it names
\* one; a statement is not reached once an ArgumentError is thrown.
Exec(g, call) ==
    LET key == call[2]
        fbo == resourceForKey(g, key)
        target == g.framebuffer[1]
    IN IF g.thrown # "none" THEN g
       ELSE IF call[1] = "load" THEN load(g, g.program, call[2], call[3])
       ELSE IF call[1] = "findAndBindProgram" THEN [g EXCEPT !.program = call[2]]
       ELSE IF call[1] = "activeTexture" THEN activeTexture(g, call[2])
       ELSE IF call[1] = "bindTexture"
       THEN bindTexture(g, key, IF call[3] = "secondary"
                                THEN getSecondaryTexture(fbo) ELSE call[3])
       ELSE IF call[1] = "bindFbo"
       THEN [g EXCEPT !.resources[key] = <<bindFbo(fbo)>>,
                      !.framebuffer = <<key>>,
                      !.steps = Append(@, <<"bindFbo", key, getPrimaryFbo(fbo)>>)]
       ELSE IF call[1] = "clear"
       THEN [g EXCEPT !.resources[target] = <<glClear(@[1])>>]
       ELSE IF call[1] = "drawArrays"
       THEN [g EXCEPT !.resources[target] = <<glDrawArrays(@[1])>>,
                      !.steps = Append(@, <<"drawArrays", target, Pass(g)>>),
                      !.draws = Append(@, Draw(Pass(g), target,
                                               resourceForKey(g, target), Sampled(g)))]
       ELSE IF call[1] = "swap"
       THEN [g EXCEPT !.resources[key] = <<swap(fbo)>>,
                      !.steps = Append(@, <<"swap", key, "">>)]
       ELSE \* isCleared = false
            [g EXCEPT !.resources[key] = <<[fbo EXCEPT !.isCleared = FALSE]>>,
                      !.steps = Append(@, <<"isCleared", key, "false">>)]

RECURSIVE Run(_, _)
Run(g, calls) ==
    IF calls = <<>> THEN g ELSE Run(Exec(g, Head(calls)), Tail(calls))

\* The statements of renderToTexture from findAndBindProgram(GridParticleProgram)
\* to groundFbo.isCleared = false.
GroundPass(layer, key) ==
    << <<"findAndBindProgram", "GridParticleProgram">>,
       <<"activeTexture", "TEXTURE2">>,
       <<"load", "loadGridSampler", <<"TEXTURE0">> >>,
       <<"load", "loadSimParticleSamper", <<"TEXTURE1">> >>,
       <<"load", "loadTileOrColorsSampler", <<"TEXTURE2">> >>,
       <<"load", "loadFadeOpacity", <<layer.fadeOpacity>> >>,
       <<"load", "loadSimTextureDimension", <<"1">> >>,
       <<"load", "loadGridMinMax", <<"1", "1", "1", "1">> >>,
       <<"bindFbo", key>>,
       <<"clear", key>>,
       <<"load", "loadDrawMode", <<MODE_TEX_COPY_FADE>> >>,
       <<"bindTexture", key, "secondary">>,
       <<"drawArrays", key>>,
       <<"load", "loadDrawMode", <<MODE_DRAW_PARTICLES>> >>,
       <<"load", "loadBbox", <<"1">> >>,
       <<"bindTexture", "colors", "colors">>,
       <<"drawArrays", key>>,
       <<"swap", key>>,
       <<"isCleared", key>> >>

\* The statements of renderToTexture from simFbo.bindFbo(dc) to the end.
SimPass(layer, key) ==
    << <<"bindFbo", key>>,
       <<"clear", key>>,
       <<"findAndBindProgram", "GridParticleSimProgram">>,
       <<"load", "loadGridDimensions", <<"1", "1">> >>,
       <<"load", "loadGridMinMax", <<"1", "1", "1", "1">> >>,
       <<"load", "loadRandSeed", <<"1">> >>,
       <<"load", "loadSpeedFactor", <<layer.speedFactor>> >>,
       <<"load", "loadDropRate", <<"1">> >>,
       <<"load", "loadDropRateMultiplier", <<"1">> >>,
       <<"load", "loadGridSampler", <<"TEXTURE0">> >>,
       <<"load", "loadParticleSamper", <<"TEXTURE1">> >>,
       <<"load", "loadBbox", <<"1">> >>,
       <<"drawArrays", key>>,
       <<"swap", key>>,
       <<"isCleared", key>> >>

\* The head of renderToTexture: the grid texture is bound to unit 0 and the sim
\* pair's secondary texture to unit 1; the textures and the pairs are taken from
\* the cache, or created.
Resources(g, offset) ==
    LET simKey == SimKey(offset)
        groundKey == GroundKey(offset)
        g1 == activeTexture(g, "TEXTURE0")
        g2 == bindTexture(IF g1.cached.grid THEN g1 ELSE createGridTexture(g1),
                          "grid", "grid")
        g3 == activeTexture(g2, "TEXTURE1")
        g4 == IF g3.resources[simKey] = <<>> THEN createSimFbo(g3, simKey) ELSE g3
        g5 == bindTexture(g4, simKey, getSecondaryTexture(resourceForKey(g4, simKey)))
        g6 == IF g5.cached.colors THEN g5 ELSE createColorsTexture(g5)
    IN IF g6.resources[groundKey] = <<>> THEN createGroundFbo(g6, groundKey) ELSE g6

renderToTexture_SimFirst(g, layer, offset) ==
    Run([Resources(g, offset) EXCEPT !.steps = <<>>, !.draws = <<>>],
        SimPass(layer, SimKey(offset)) \o GroundPass(layer, GroundKey(offset)))

renderToTexture(g, layer, offset) ==
    Run([Resources(g, offset) EXCEPT !.steps = <<>>, !.draws = <<>>],
        GroundPass(layer, GroundKey(offset)) \o SimPass(layer, SimKey(offset)))

clearGroundFbo_AlwaysPauses(g, offset) ==
    LET key == GroundKey(offset)
        g1 == [g EXCEPT !.requiresFboClear = FALSE, !.sinceClear = 0]
    IN IF g1.resources[key] # <<>> /\ ~resourceForKey(g1, key).isCleared
       THEN [g1 EXCEPT !.resources[key] = <<clearFbo(@[1])>>,
                       !.framebuffer = <<>>]
       ELSE g1

\* clearGroundFbo(dc)
clearGroundFbo(g, offset) ==
    LET key == GroundKey(offset)
        g1 == [g EXCEPT !.requiresFboClear = FALSE]
    IN IF g1.resources[key] # <<>> /\ ~resourceForKey(g1, key).isCleared
       THEN [g1 EXCEPT !.resources[key] = <<clearFbo(@[1])>>,
                       !.framebuffer = <<>>,
                       !.sinceClear = 0]
       ELSE g1

loadGridData_Unguarded(g) ==
    IF ~g.gridDataUrl THEN g
    ELSE [g EXCEPT !.requests = @ + 1, !.loadInProgress = TRUE]

\* loadGridData(this._gridDataUrl): xhr.send(), unless a load is in progress or
\* there is no url.
loadGridData(g) ==
    IF g.loadInProgress THEN g
    ELSE IF ~g.gridDataUrl THEN g
    ELSE [g EXCEPT !.requests = @ + 1, !.loadInProgress = TRUE]

\* xhr.onload: the grid data is set when the status is 2xx or 0 and the response
\* parses; otherwise the handler throws, after it has reset _loadInProgress.
onload(g, status, parses) ==
    LET g1 == [g EXCEPT !.requests = @ - 1, !.loadInProgress = FALSE]
    IN IF (status >= 200 /\ status < 300) \/ status = 0
       THEN IF parses THEN [g1 EXCEPT !.gridData = TRUE] ELSE g1
       ELSE g1

\* xhr.onerror
onerror(g) ==
    [g EXCEPT !.requests = @ - 1, !.loadInProgress = FALSE]

\* restoreGLState(dc)
restoreGLState(g) ==
    [activeTexture(g, "TEXTURE0") EXCEPT !.framebuffer = <<>>]

\* GriddedDataLayer.prototype.bind(dc), which the surface tile renderer calls for
\* the texture it draws on the terrain: the ground pair's primary texture.
bindLayer(g, offset) ==
    LET key == GroundKey(offset)
        fbo == resourceForKey(g, key)
        texture == bind(fbo).boundTexture
    IN IF g.resources[key] = <<>> THEN g
       ELSE [bindTexture(g, key, texture) EXCEPT !.handed = <<key, texture>>]

\* dc.surfaceTileRenderer.renderTiles(dc, [this], ...), as far as the layer is
\* concerned: the renderer asks the layer to bind its texture. The texture units
\* are followed no further: the renderer, and the layers drawn after this one,
\* bind their own textures, and renderToTexture binds anew the units it samples.
renderTiles(g, offset) ==
    [bindLayer(g, offset) EXCEPT !.units = [u \in TextureUnits |-> <<>>]]

\* renderToTexture in its try block, and what follows it.
renderAndDraw(g, layer, offset) ==
    LET rendered == renderToTexture(g, layer, offset)
        restored == restoreGLState(rendered)
    IN IF rendered.thrown # "none"
       THEN [restored EXCEPT !.units = [u \in TextureUnits |-> <<>>]]
       ELSE renderTiles(restored, offset)

\* doRender(dc), for a layer with tiles to draw.
doRender(g, layer, offset, mvpMatrixChanged) ==
    LET g0 == [g EXCEPT !.loadCalled = FALSE, !.draws = <<>>, !.handed = <<>>]
        g1 == IF mvpMatrixChanged
              THEN [g0 EXCEPT !.requiresFboClear = TRUE, !.invalidated = TRUE] ELSE g0
        g2 == IF g1.requiresFboClear THEN clearGroundFbo(g1, offset) ELSE g1
    IN IF ~g0.terrain THEN g0
       ELSE IF ~g0.gridData THEN [loadGridData(g0) EXCEPT !.loadCalled = TRUE]
       ELSE IF g2.sinceClear <= waitTime THEN g2
       ELSE [renderAndDraw(g2, layer, offset) EXCEPT !.invalidated = FALSE]

\* layer.numParticles = n: the sim pairs get new cache keys, under which the cache
\* holds nothing; the pairs under the old keys are left to the cache.
setNumParticles(g) ==
    [g EXCEPT !.resources = [key \in DOMAIN @ |-> IF key \in SimKeys THEN <<>> ELSE @[key]],
              !.requiresFboClear = TRUE,
              !.invalidated = TRUE]

\* layer.colors = c
setColors(g) ==
    [g EXCEPT !.requiresFboClear = TRUE, !.invalidated = TRUE, !.cached.colors = FALSE]

\* The properties of the layer that the application can set, or unset.
Layers ==
    { [ fadeOpacity |-> f, speedFactor |-> v ]
      : f \in Numbers \cup {"undefined"}, v \in Numbers \cup {"undefined"} }

Offsets == {-1, 0, 1}

\* How many times the pairs that a frame at offset would use have been swapped.
SwapsOf(g, offset) ==
    LET count(key) == IF g.resources[key] = <<>> THEN 0
                      ELSE resourceForKey(g, key).swapCount
    IN <<count(GroundKey(offset)), count(SimKey(offset))>>

\* The WorldWindow draws a frame: the layer's doRender runs for one globe offset.
\* The error of the frame before, if any, has ended that frame.
DoRender ==
    \E layer \in Layers, offset \in Offsets, mvpMatrixChanged \in BOOLEAN :
        /\ SwapsOf(gpu, offset)[1] < MaxRenders
        /\ gpu' = doRender([gpu EXCEPT !.thrown = "none", !.steps = <<>>],
                           layer, offset, mvpMatrixChanged)
        /\ gpuOp' = GpuCall("doRender", "", <<offset, mvpMatrixChanged>>, 0)
        /\ UNCHANGED exceptGpu

\* The application sets the layer's numParticles, or its colors, between frames.
SetNumParticles ==
    /\ gpu' = setNumParticles(gpu)
    /\ gpuOp' = GpuCall("numParticles", "", <<>>, 0)
    /\ UNCHANGED exceptGpu

SetColors ==
    /\ gpu' = setColors(gpu)
    /\ gpuOp' = GpuCall("colors", "", <<>>, 0)
    /\ UNCHANGED exceptGpu

\* Time passes: up to waitTime since the ground pair was cleared last, then beyond.
WaitTimePasses ==
    /\ gpu.sinceClear <= waitTime
    /\ gpu' = [gpu EXCEPT !.sinceClear = IF @ = 0 THEN waitTime ELSE waitTime + 1]
    /\ gpuOp' = GpuCall("wait", "", <<>>, 0)
    /\ UNCHANGED exceptGpu

\* The layer once its grid data has arrived.
InitRenderPart ==
    /\ gpu = [GlContext EXCEPT !.gridData = TRUE]
    /\ gpuOp = GpuCall("new", "none", <<>>, 0)

\* The HTTP statuses a request ends with.
Statuses == {0, 200, 404}

InitLoadPart ==
    /\ \E url \in BOOLEAN : gpu = [GlContext EXCEPT !.gridDataUrl = url]
    /\ gpuOp = GpuCall("new", "none", <<>>, 0)

\* The WorldWindow draws a frame, with a terrain or without one. The ghost counts
\* the loads that have failed so far.
DoRenderFrame ==
    \E layer \in {[fadeOpacity |-> "1", speedFactor |-> "1"]}, offset \in Offsets,
       terrain \in BOOLEAN, mvpMatrixChanged \in BOOLEAN :
        /\ SwapsOf(gpu, offset)[1] < MaxRenders
        /\ gpu' = doRender([gpu EXCEPT !.thrown = "none", !.steps = <<>>,
                                       !.terrain = terrain],
                           layer, offset, mvpMatrixChanged)
        /\ gpuOp' = GpuCall("doRender", "", <<offset, mvpMatrixChanged>>, gpuOp.count)
        /\ UNCHANGED exceptGpu

\* A request completes: load event.
RequestLoaded ==
    \E status \in Statuses, parses \in BOOLEAN :
        /\ gpu.requests > 0
        /\ gpu' = onload(gpu, status, parses)
        /\ gpu'.gridData \/ gpuOp.count < MaxLoads
        /\ gpuOp' = GpuCall("onload", "", <<status>>,
                            IF gpu'.gridData THEN gpuOp.count ELSE gpuOp.count + 1)
        /\ UNCHANGED exceptGpu

\* A request fails: error event.
RequestFailed ==
    /\ gpu.requests > 0
    /\ gpuOp.count < MaxLoads
    /\ gpu' = onerror(gpu)
    /\ gpuOp' = GpuCall("onerror", "", <<>>, gpuOp.count + 1)
    /\ UNCHANGED exceptGpu

NextLoad ==
    \/ DoRenderFrame
    \/ RequestLoaded
    \/ RequestFailed
    \/ WaitTimePasses

NextRender ==
    \/ DoRender
    \/ WaitTimePasses

NextInvalidate ==
    \/ DoRender
    \/ WaitTimePasses
    \/ SetNumParticles
    \/ SetColors

(***************************************************************************)
(* onGestureEvent: the delivery of an event to the recognizers             *)
(***************************************************************************)

\* Recognizers registered at most.
MaxRecognizers == 3

\* The targets a recognizer can have: the controller's world window, or another.
Targets == {"wwd", "other"}

\* What recognizer.onGestureEvent(e) can do to a recognizer: its state afterwards,
\* and whether it reports the event as handled.
Outcomes ==
    { [ state |-> st, handled |-> h ] : st \in {"Possible", "Began"}, h \in BOOLEAN }

\* GestureRecognizer.allRecognizers with the event dispatched last: its type,
\* whether the base controller had handled it, the indices of the recognizers
\* whose onGestureEvent was called, in the order of the calls, whether
\* handleWheelEvent was called, and what onGestureEvent returned.
Dispatch(allRecognizers) ==
    [ allRecognizers |-> allRecognizers,
      type |-> "none",
      baseHandled |-> FALSE,
      delivered |-> <<>>,
      wheelHandled |-> FALSE,
      handled |-> FALSE ]

\* new GestureRecognizer(target, callback): the recognizer is appended.
register(r, target) ==
    [r EXCEPT !.allRecognizers = Append(@, [target |-> target, state |-> "Possible"])]

\* The for loop of onGestureEvent from index i, with len read before the loop.
RECURSIVE pollFrom_UntilHandled(_, _, _, _)
pollFrom_UntilHandled(r, i, len, outcome) ==
    IF i > len \/ r.handled THEN r
    ELSE IF r.allRecognizers[i].target = "wwd"
    THEN pollFrom_UntilHandled([r EXCEPT !.allRecognizers[i].state = outcome[i].state,
                                 !.delivered = Append(@, i),
                                 !.handled = @ \/ outcome[i].handled],
                               i + 1, len, outcome)
    ELSE pollFrom_UntilHandled(r, i + 1, len, outcome)

RECURSIVE pollFrom(_, _, _, _)
pollFrom(r, i, len, outcome) ==
    IF i > len THEN r
    ELSE IF r.allRecognizers[i].target = "wwd"
    THEN pollFrom([r EXCEPT !.allRecognizers[i].state = outcome[i].state,
                            !.delivered = Append(@, i),
                            !.handled = @ \/ outcome[i].handled],
                  i + 1, len, outcome)
    ELSE pollFrom(r, i + 1, len, outcome)

\* onGestureEvent(e) from `if (!handled)` on, where handled is what the base
\* controller returned and outcome[i] is what the i-th recognizer does with e.
dispatchEvent(r, type, handled, outcome) ==
    LET r0 == [r EXCEPT !.type = type, !.baseHandled = handled, !.delivered = <<>>,
                        !.wheelHandled = FALSE, !.handled = handled]
    IN IF handled THEN r0
       ELSE IF type = "wheel" THEN [r0 EXCEPT !.handled = TRUE, !.wheelHandled = TRUE]
       ELSE pollFrom(r0, 1, Len(r0.allRecognizers), outcome)

InitDispatchPart == reg = Dispatch(<<>>)

\* A recognizer is created, for the world window or for another target.
Register ==
    \E target \in Targets :
        /\ Len(reg.allRecognizers) < MaxRecognizers
        /\ reg' = register(reg, target)
        /\ UNCHANGED exceptReg

\* The world window hands an event to the controller's onGestureEvent.
OnGestureEvent ==
    \E type \in {"wheel", "pointerdown", "pointermove"}, handled \in BOOLEAN,
       outcome \in [1..Len(reg.allRecognizers) -> Outcomes] :
        /\ reg' = dispatchEvent(reg, type, handled, outcome)
        /\ UNCHANGED exceptReg

NextDispatch ==
    \/ Register
    \/ OnGestureEvent

(***************************************************************************)
(* The fling animations in numbers: what a tick applies to the camera      *)
(***************************************************************************)

\* Largest initial delta of a fling: pixels of the last drag step (2D, double
\* click), degrees of latitude (3D north-up) or of rotation (3D sphere rotation).
MaxDelta == 2
Deltas == (0 - MaxDelta)..MaxDelta
FlingKinds == {"2D", "northUp", "sphere", "dbl"}
\* elapsed, in thirds, at the ticks followed: 0, 1/3 and 1 (an overdue tick is
\* clamped: elapsed = elapsed > 1 ? 1 : elapsed).
Elapsed == {0, 1, 3}
\* navigator.range at the start, in units that keep three scalings by n / 400 whole.
BeginRange == 400 * 400 * 400

\* Twice Math.sin(elapsed * Math.PI / 2): sin 0 = 0, sin 30 deg = 1/2, sin 90 deg = 1.
TwiceSin(elapsed) == IF elapsed = 0 THEN 0 ELSE IF elapsed = 1 THEN 1 ELSE 2

\* A fling as its handler leaves it: begin is beginTx (2D), initialDelta[0] (3D
\* north-up), rotationAngle (3D sphere rotation) or lastdeltaScale (double click);
\* tx, lastPoint and position are kept doubled, tx and lastPoint relative to
\* beginPoint (this.beginPoint.copy(this.lastPoint)); position is the camera's
\* coordinate along the fling (screen pixels of the 2D view, latitude, angle).
Fling(kind, begin) ==
    [ kind |-> kind, begin |-> begin,
      tx |-> 2 * begin, lastPoint |-> 0,
      elapsed |-> -1, pending |-> TRUE,
      position |-> 0, range |-> BeginRange ]

\* handleFling2D's animate: tx -= beginTx - beginTx * value; move2D(tx, ty), which
\* moves the view from lastPoint to beginPoint + tx and keeps that point.
tick2D(f, elapsed) ==
    LET tx == f.tx - (2 * f.begin - f.begin * TwiceSin(elapsed))
        x1 == f.lastPoint
        x2 == tx
    IN [f EXCEPT !.tx = tx, !.lastPoint = x2,
                 !.position = @ - (x2 - x1)]

\* handleFling3D's animate with northUpMode: lookAtLocation.latitude -= deltaLatitude.
tickNorthUp(f, elapsed) ==
    LET deltaLatitude == 2 * f.begin - f.begin * TwiceSin(elapsed)
    IN [f EXCEPT !.position = @ - deltaLatitude]

\* handleFling3D's animate without northUpMode: rotateShpere by
\* angle = rotationAngle * (1 - value).
tickSphere(f, elapsed) ==
    LET angle == f.begin * (2 - TwiceSin(elapsed))
    IN [f EXCEPT !.position = @ + angle]

\* handleDoubleClickFling's animate: scale = 1 - (lastdeltaScale - value) / 200;
\* navigator.range *= scale.
tickDoubleClick(f, elapsed) ==
    LET scaleTimes400 == 400 - (2 * f.begin - TwiceSin(elapsed))
    IN [f EXCEPT !.range = (@ \div 400) * scaleTimes400]

\* One run of animate at the given elapsed: the change, then
\* if (elapsed < 1) requestAnimationFrame(animate).
tick(f, elapsed) ==
    LET g == IF f.kind = "2D" THEN tick2D(f, elapsed)
             ELSE IF f.kind = "northUp" THEN tickNorthUp(f, elapsed)
             ELSE IF f.kind = "sphere" THEN tickSphere(f, elapsed)
             ELSE tickDoubleClick(f, elapsed)
    IN [g EXCEPT !.elapsed = elapsed, !.pending = elapsed < 3]

InitEasePart ==
    \E kind \in FlingKinds, begin \in Deltas : ease = Fling(kind, begin)

\* The browser runs the pending animate; the clock has advanced since the last run.
FlingTick ==
    /\ ease.pending
    /\ \E elapsed \in Elapsed :
         /\ elapsed > ease.elapsed
         /\ ease' = tick(ease, elapsed)
    /\ UNCHANGED exceptEase

NextEase == FlingTick


(***************************************************************************)
(* Dragging a 3D globe, and the fling that follows                         *)
(***************************************************************************)

\* Angles between two points of the globe, in degrees: 0 for one and the same point.
MaxAngle == 2
Angles == 0..MaxAngle
\* navigator.heading; latitudes below and above the 75 degrees of isSphereRotation.
NavigatorHeadings == {0, 10}
Latitudes == {0, 80}

\* The controller on a 3D globe: the navigator's heading and look-at latitude class,
\* the latitude of lastIntersectionPosition, dragDelta[0], whether rotationVector is
\* finite, the transform the last drag event applied (<<>> for none; sphere
\* rotations by their angle, latitude changes by their delta), the angle between
\* the begin and last intersection points as handleFling3D found them, the
\* fling animation (<<>> for none), whether a drag or pan gesture is in progress,
\* and the gesture whose Began event recorded beginIntersectionPoint and
\* beginIntersectionPosition: the one in progress or last ended ("thisGesture") or
\* one before it ("earlierGesture").
Controller3D(northUpMode, heading, latitude) ==
    [ northUpMode |-> northUpMode, heading |-> heading, latitude |-> latitude,
      lastLatitude |-> 0, dragDelta |-> 0, vectorFinite |-> TRUE,
      dragged |-> <<>>, between |-> 0, fling |-> <<>>,
      dragging |-> FALSE, beginFrom |-> "thisGesture" ]

\* handlePanOrDrag3D for state Began: hit says whether the ray through the pointer
\* meets the globe.
began3D(c, hit) ==
    IF ~hit THEN c
    ELSE [c EXCEPT !.beginFrom = "thisGesture"]

\* isSphereRotation(lastIntersectionPosition)
isSphereRotation(c) ==
    c.heading # 0 \/ c.latitude > 75 \/ c.lastLatitude > 75

\* computeRotationVectorAndAngle(vec1, vec2, rotationVector): the normalized cross
\* product is not finite for two equal points.
computeRotationVectorAndAngle(c, angle) ==
    [c EXCEPT !.vectorFinite = angle # 0]

\* handlePanOrDrag3D for state Changed, with move3D: the ray through the pointer
\* meets the globe at lastLatitude, angle degrees and delta degrees of latitude from
\* the begin intersection point.
drag3D(c, lastLatitude, angle, delta) ==
    LET c1 == [c EXCEPT !.lastLatitude = lastLatitude]
        c2 == computeRotationVectorAndAngle(c1, angle)
    IN IF ~c1.northUpMode
       THEN IF c2.vectorFinite
            THEN [c2 EXCEPT !.dragged = <<"sphere", angle>>, !.dragDelta = delta]
            ELSE [c2 EXCEPT !.dragged = <<>>]
       ELSE [c1 EXCEPT !.dragged = <<"northUp", delta>>, !.dragDelta = delta]

\* handleFling3D for state Recognized, up to requestAnimationFrame: hitLast and
\* hitBegin say whether the rays through lastPoint and beginPoint meet the globe,
\* angle is the angle between the two intersection points.
fling3D(c, hitLast, hitBegin, lastLatitude, angle) ==
    LET c1 == [c EXCEPT !.lastLatitude = lastLatitude, !.between = angle, !.fling = <<>>]
        c2 == computeRotationVectorAndAngle(c1, angle)
        kind == IF ~c1.northUpMode THEN "sphere" ELSE "northUp"
        begin(rotationAngle) == IF ~c1.northUpMode THEN rotationAngle ELSE c1.dragDelta
    IN IF ~hitLast THEN [c EXCEPT !.fling = <<>>]
       ELSE IF isSphereRotation(c1)
       THEN IF ~hitBegin \/ ~c2.vectorFinite THEN c2
            ELSE [c2 EXCEPT !.fling = <<Fling(kind, begin(angle))>>]
       ELSE [c1 EXCEPT !.fling = <<Fling(kind, begin(0))>>]

\* One run of animate: rotateShpere returns at once unless rotationVector is finite.
tick3D(c, elapsed) ==
    LET f == c.fling[1]
    IN IF f.kind = "sphere" /\ ~c.vectorFinite
       THEN [c EXCEPT !.fling = <<[f EXCEPT !.elapsed = elapsed, !.pending = elapsed < 3]>>]
       ELSE [c EXCEPT !.fling = <<tick(f, elapsed)>>]

InitSpinPart ==
    \E northUpMode \in BOOLEAN, heading \in NavigatorHeadings, latitude \in Latitudes :
        spin = Controller3D(northUpMode, heading, latitude)

\* A drag or pan gesture begins, after the pointerdown that cancels a pending
\* fling: what beginIntersectionPoint holds is from then on of an earlier gesture,
\* until this one records it.
Began3D ==
    \E hit \in BOOLEAN :
        /\ ~spin.dragging
        /\ spin' = began3D([spin EXCEPT !.fling = <<>>, !.dragged = <<>>,
                                        !.dragging = TRUE, !.beginFrom = "earlierGesture"],
                           hit)
        /\ UNCHANGED exceptSpin

\* A drag or pan gesture changes: the globe follows the pointer.
Drag3D ==
    \E lastLatitude \in Latitudes, angle \in Angles, delta \in Deltas :
        /\ spin.dragging
        /\ spin' = drag3D([spin EXCEPT !.fling = <<>>], lastLatitude, angle, delta)
        /\ UNCHANGED exceptSpin

\* The fling recognizer recognizes the end of the drag.
Fling3D ==
    \E hitLast \in BOOLEAN, hitBegin \in BOOLEAN,
       lastLatitude \in Latitudes, angle \in Angles :
        /\ spin.dragging
        /\ spin.dragged # <<>>
        /\ spin.fling = <<>>
        /\ spin' = [fling3D(spin, hitLast, hitBegin, lastLatitude, angle)
                    EXCEPT !.dragging = FALSE]
        /\ UNCHANGED exceptSpin

\* The gesture ends with no fling.
Ended3D ==
    /\ spin.dragging
    /\ spin' = [spin EXCEPT !.dragging = FALSE]
    /\ UNCHANGED exceptSpin

\* The browser runs the pending animate.
Tick3D ==
    /\ spin.fling # <<>>
    /\ spin.fling[1].pending
    /\ \E elapsed \in Elapsed :
         /\ elapsed > spin.fling[1].elapsed
         /\ spin' = tick3D(spin, elapsed)
    /\ UNCHANGED exceptSpin

NextSpin ==
    \/ Began3D
    \/ Drag3D
    \/ Ended3D
    \/ Fling3D
    \/ Tick3D


(***************************************************************************)
(* The particle shaders: a position packed into an RGBA texel              *)
(***************************************************************************)

\* Coordinates are the fractions n / Resolution, 0 <= n < Resolution, of [0, 1).
Resolution == 33
Coordinates == 0..(Resolution - 1)
\* A float channel of gl_FragColor is kept as its numerator over 255 * Resolution,
\* a stored channel as its byte, a decoded coordinate as its numerator over 255 * 255.
Roundings == {"nearest", "down"}

\* fract(bitEnc * pos.x) for pos.x = n / Resolution, as numerators over Resolution.
fractBitEnc(n) == <<n % Resolution, (255 * n) % Resolution>>

encodeAxis_NoCarry(n) ==
    LET rg == fractBitEnc(n)
    IN <<255 * rg[1], 255 * rg[2]>>

\* rg = fract(bitEnc * pos.x); rg -= rg.yy * vec2(1.0 / 255.0, 0.0)
encodeAxis(n) ==
    LET rg == fractBitEnc(n)
    IN <<255 * rg[1] - rg[2], 255 * rg[2]>>

\* encodePositionToRGBA(pos)
encodePositionToRGBA(pos) == encodeAxis(pos[1]) \o encodeAxis(pos[2])

\* The write of a float channel to an RGBA8 texel: the byte nearest to 255 times
\* the channel, or the byte below it where the implementation truncates.
quantise(channel, rounding) ==
    IF rounding = "nearest"
    THEN (2 * channel + Resolution) \div (2 * Resolution)
    ELSE channel \div Resolution

\* decodePositionFromRGBA(color) for color = bytes / 255:
\* floor(color * 255.0 + 0.5) / 255.0 is the byte over 255, and
\* dot(rounded.rg, bitDec) = r / 255 + g / (255 * 255).
decodePositionFromRGBA(bytes) ==
    <<255 * bytes[1] + bytes[2], 255 * bytes[3] + bytes[4]>>

\* A particle at pos, with what the passes made of it so far.
Texel(pos) ==
    [ pos |-> pos, color |-> <<>>, bytes |-> <<>>, decoded |-> <<>> ]

InitCodecPart == \E x \in Coordinates, y \in Coordinates : px = Texel(<<x, y>>)

\* The simulation pass's fragment shader returns encodePositionToRGBA(pos).
Encode ==
    /\ px.color = <<>>
    /\ px' = [px EXCEPT !.color = encodePositionToRGBA(px.pos)]
    /\ UNCHANGED exceptPx

\* The colour is written to the RGBA8 texture of the simulation framebuffer.
Store ==
    /\ px.color # <<>>
    /\ px.bytes = <<>>
    /\ \E rounding \in Roundings :
         px' = [px EXCEPT !.bytes = [i \in 1..4 |-> quantise(px.color[i], rounding)]]
    /\ UNCHANGED exceptPx

\* The next pass samples the texel and decodes it.
Decode ==
    /\ px.bytes # <<>>
    /\ px.decoded = <<>>
    /\ px' = [px EXCEPT !.decoded = decodePositionFromRGBA(px.bytes)]
    /\ UNCHANGED exceptPx

NextCodec ==
    \/ Encode
    \/ Store
    \/ Decode


(***************************************************************************)
(* RenderableLayer: time-based visibility                                  *)
(***************************************************************************)

\* Dates are 0..MaxTime.
MaxTime == 1
Dates == 0..MaxTime
\* A timeRange array: empty, one date, or start and end.
TimeRanges ==
    {<<>>} \cup {<<start>> : start \in Dates}
           \cup {<<start, end>> : start \in Dates, end \in Dates}
\* The layer of the example holds several shapes; two are followed.
Renderables == 1..2

Shape(enabled, timeRange) == [ enabled |-> enabled, timeRange |-> timeRange ]

\* new RenderableLayer() after addRenderable for each shape; seen[i] is the enabled
\* flag that render(dc) of shape i found in the last frame, if it was called.
RenderableLayer(shapes) ==
    [ renderables |-> shapes, timeRange |-> <<>>,
      seen |-> [i \in Renderables |-> <<>>] ]

solveTimeVisibility_Overlapping(selectedTimeRange, renderable) ==
    IF Len(renderable.timeRange) >= 2 /\ Len(selectedTimeRange) >= 2
       /\ (renderable.timeRange[2] < selectedTimeRange[1]
           \/ renderable.timeRange[1] > selectedTimeRange[2])
    THEN FALSE
    ELSE renderable.enabled

\* solveTimeVisibility(dc, renderable), selectedTimeRange being
\* dc.currentLayer.timeRange
solveTimeVisibility(selectedTimeRange, renderable) ==
    IF Len(renderable.timeRange) >= 2 /\ Len(selectedTimeRange) >= 2
       /\ (renderable.timeRange[1] < selectedTimeRange[1]
           \/ renderable.timeRange[2] > selectedTimeRange[2])
    THEN FALSE
    ELSE renderable.enabled

\* The body of doRender's loop for shape i; throws says whether render(dc) throws,
\* which skips the statement that restores the enabled flag.
renderShape(l, i, throws) ==
    LET enabledByDefault == l.renderables[i].enabled
        visible == solveTimeVisibility(l.timeRange, l.renderables[i])
    IN [l EXCEPT !.seen[i] = <<visible>>,
                 !.renderables[i].enabled = IF throws THEN visible ELSE enabledByDefault]

\* RenderableLayer.prototype.doRender(dc)
RECURSIVE renderFrom(_, _, _)
renderFrom(l, i, throws) ==
    IF i \notin Renderables THEN l
    ELSE renderFrom(renderShape(l, i, throws[i]), i + 1, throws)

doRenderShapes(l, throws) ==
    renderFrom([l EXCEPT !.seen = [i \in Renderables |-> <<>>]], 1, throws)

InitShapesPart ==
    \E shapes \in [Renderables -> {Shape(enabled, timeRange)
                                    : enabled \in BOOLEAN, timeRange \in TimeRanges}] :
        shapesLayer = RenderableLayer(shapes)

\* The application selects a time range (changeParamValues of the example), or
\* clears it.
SelectTimeRange ==
    \E timeRange \in TimeRanges :
        /\ timeRange # shapesLayer.timeRange
        /\ shapesLayer' = [shapesLayer EXCEPT !.timeRange = timeRange]
        /\ UNCHANGED exceptShapes

\* The WorldWindow draws a frame: the layer renders its shapes.
RenderShapes ==
    \E throws \in [Renderables -> BOOLEAN] :
        /\ shapesLayer' = doRenderShapes(shapesLayer, throws)
        /\ UNCHANGED exceptShapes

NextShapes ==
    \/ SelectTimeRange
    \/ RenderShapes

(***************************************************************************)
(* ShapeEditor: creating a shape                                           *)
(***************************************************************************)

\* The promises one editor hands out are followed up to this many.
MaxPromises == 3

\* The editor fragment that canHandle() a shape: none, one whose isRegularShape()
\* is true (circle, ellipse, rectangle, sector, placemark), or the polyline or
\* polygon fragment.
Fragments == {"null", "regular", "polyline"}

\* new ShapeEditor(worldWindow): _shape is null, the shape being created
\* ("shadow") or a shape under edit ("edited"); promisedShape is null (0) or the
\* promise of the last create(); promises holds the state of every promise
\* returned: <<"pending">>, or <<"resolved", value>>.
ShapeEditor ==
    [ creatorEnabled |-> FALSE, activeEditorFragment |-> "null", shape |-> "null",
      promisedShape |-> 0, promises |-> <<>>, thrown |-> FALSE ]

\* ShapeEditor.prototype.stop
stop(e) ==
    [e EXCEPT !.activeEditorFragment = "null", !.shape = "null"]

setCreatorEnabled(e, creatorEnabled) ==
    [e EXCEPT !.creatorEnabled = creatorEnabled]

\* ShapeEditor.prototype.create(shape, properties): fragment is the editor
\* fragment that can handle the shape.
create(e, fragment) ==
    LET e1 == [setCreatorEnabled(stop(e), TRUE) EXCEPT !.activeEditorFragment = fragment]
    IN IF e1.activeEditorFragment # "null"
       THEN [e1 EXCEPT !.promises = Append(@, <<"pending">>),
                       !.promisedShape = Len(e1.promises) + 1]
       ELSE e1

\* ShapeEditor.prototype.edit(shape, config)
edit(e, fragment) ==
    LET e1 == [stop(e) EXCEPT !.activeEditorFragment = fragment]
    IN IF e1.activeEditorFragment # "null"
       THEN [e1 EXCEPT !.shape = "edited"]
       ELSE e1

\* promisedShape.resolve(value): a promise is settled once; on null it throws.
resolve(e, value) ==
    IF e.promisedShape = 0 THEN [e EXCEPT !.thrown = TRUE]
    ELSE IF e.promises[e.promisedShape] = <<"pending">>
    THEN [e EXCEPT !.promises[e.promisedShape] = <<"resolved", value>>]
    ELSE e

\* handleMouseDown over the terrain, with no control point under the pointer: in
\* creator mode the shadow shape is made.
handleMouseDown(e) ==
    IF e.creatorEnabled /\ e.activeEditorFragment # "null" /\ e.shape = "null"
    THEN [e EXCEPT !.shape = "shadow"]
    ELSE e

\* handleMouseUp: doubleClick says whether the release ends a double click on a
\* control point, enough says whether the shape has the vertices it needs. The
\* callbacks of promisedShape.then(...).finally(...) run before the next event.
handleMouseUp(e, doubleClick, enough) ==
    LET e1 == IF e.creatorEnabled /\ e.activeEditorFragment # "null" /\ e.shape # "null"
                 /\ e.activeEditorFragment = "regular"
              THEN resolve(setCreatorEnabled(e, FALSE), e.shape)
              ELSE e
    IN IF e1.thrown THEN e1
       ELSE IF doubleClick /\ e1.shape # "null"
               /\ e1.creatorEnabled /\ e1.activeEditorFragment # "null"
       THEN LET e2 == resolve([e1 EXCEPT !.shape = IF enough THEN @ ELSE "null"],
                              IF enough THEN e1.shape ELSE "null")
            IN IF e2.thrown THEN e2 ELSE stop(setCreatorEnabled(e2, FALSE))
       ELSE e1

InitEditorPart == editor = ShapeEditor

Create ==
    \E fragment \in Fragments :
        /\ Len(editor.promises) < MaxPromises
        /\ editor' = create([editor EXCEPT !.thrown = FALSE], fragment)
        /\ UNCHANGED exceptEditor

Edit ==
    \E fragment \in Fragments :
        /\ editor' = edit([editor EXCEPT !.thrown = FALSE], fragment)
        /\ UNCHANGED exceptEditor

Stop ==
    /\ editor' = stop([editor EXCEPT !.thrown = FALSE])
    /\ UNCHANGED exceptEditor

EditorMouseDown ==
    /\ editor' = handleMouseDown([editor EXCEPT !.thrown = FALSE])
    /\ UNCHANGED exceptEditor

MouseUpWith(doubleClick, enough) ==
    /\ editor' = handleMouseUp([editor EXCEPT !.thrown = FALSE], doubleClick, enough)
    /\ UNCHANGED exceptEditor

EditorMouseUp ==
    \E doubleClick \in BOOLEAN, enough \in BOOLEAN : MouseUpWith(doubleClick, enough)

NextEditor ==
    \/ Create
    \/ Edit
    \/ Stop
    \/ EditorMouseDown
    \/ EditorMouseUp


(***************************************************************************)
(* Specifications                                                          *)
(***************************************************************************)

FboIdle == dbf = DoubleBufferedFbo("zero", "zero") /\ fboOp = FboCall("new", dbf)
CtlIdle == ctl = BasicWorldWindowController(FALSE, 0) /\ ctlOp = Handled("new")
RecIdle ==
    /\ drag = DragRecognizer(0, 1)
    /\ pan = PanRecognizer(1, 1, NumberMaxValue)
    /\ recOp = RecCall("new", <<0, 0>>, drag, pan, FALSE, FALSE)

ArbIdle == arb = ArbitrationGraph
GpuIdle == gpu = GlContext /\ gpuOp = GpuCall("new", "none", <<>>, 0)
RegIdle == reg = Dispatch(<<>>)
EaseIdle == ease = Fling("2D", 0)
PxIdle == px = Texel(<<0, 0>>)
ShapesIdle == shapesLayer = RenderableLayer([i \in Renderables |-> Shape(TRUE, <<>>)])
SpinIdle == spin = Controller3D(TRUE, 0, 0)
EditorIdle == editor = ShapeEditor

InitFbo == InitFboPart /\ CtlIdle /\ RecIdle /\ ArbIdle /\ GpuIdle /\ RegIdle /\ EaseIdle /\ PxIdle /\ ShapesIdle /\ SpinIdle /\ EditorIdle
InitCtl == FboIdle /\ InitCtlPart /\ RecIdle /\ ArbIdle /\ GpuIdle /\ RegIdle /\ EaseIdle /\ PxIdle /\ ShapesIdle /\ SpinIdle /\ EditorIdle
InitRec == FboIdle /\ CtlIdle /\ InitRecPart /\ ArbIdle /\ GpuIdle /\ RegIdle /\ EaseIdle /\ PxIdle /\ ShapesIdle /\ SpinIdle /\ EditorIdle
InitArb == FboIdle /\ CtlIdle /\ RecIdle /\ InitArbPart /\ GpuIdle /\ RegIdle /\ EaseIdle /\ PxIdle /\ ShapesIdle /\ SpinIdle /\ EditorIdle
InitNorth == FboIdle /\ RecIdle /\ ArbIdle /\ InitNorthPart /\ GpuIdle /\ RegIdle /\ EaseIdle /\ PxIdle /\ ShapesIdle /\ SpinIdle /\ EditorIdle
InitClick == FboIdle /\ RecIdle /\ ArbIdle /\ InitClickPart /\ GpuIdle /\ RegIdle /\ EaseIdle /\ PxIdle /\ ShapesIdle /\ SpinIdle /\ EditorIdle
InitRay == FboIdle /\ RecIdle /\ ArbIdle /\ InitRayPart /\ GpuIdle /\ RegIdle /\ EaseIdle /\ PxIdle /\ ShapesIdle /\ SpinIdle /\ EditorIdle
InitUniform == FboIdle /\ CtlIdle /\ RecIdle /\ ArbIdle /\ InitUniformPart /\ RegIdle /\ EaseIdle /\ PxIdle /\ ShapesIdle /\ SpinIdle /\ EditorIdle
InitDispatch == FboIdle /\ CtlIdle /\ RecIdle /\ ArbIdle /\ GpuIdle /\ InitDispatchPart /\ EaseIdle /\ PxIdle /\ ShapesIdle /\ SpinIdle /\ EditorIdle

SpecFbo == InitFbo /\ [][NextFbo]_vars
SpecCtl == InitCtl /\ [][NextCtl]_vars
SpecZoom == InitCtl /\ [][NextZoom]_vars

SpecRec == InitRec /\ [][NextRec]_vars
SpecArb == InitArb /\ [][NextArb]_vars
SpecNorth == InitNorth /\ [][NextNorth]_vars
SpecClick == InitClick /\ [][NextClick]_vars
SpecRay == InitRay /\ [][NextRay]_vars
SpecLatch == InitRay /\ [][NextLatch]_vars
InitTwist == FboIdle /\ RecIdle /\ ArbIdle /\ InitTwistPart /\ GpuIdle /\ RegIdle /\ EaseIdle /\ PxIdle /\ ShapesIdle /\ SpinIdle /\ EditorIdle
SpecTwist == InitTwist /\ [][NextTwist]_vars
SpecUniform == InitUniform /\ [][NextUniform]_vars
InitRender == FboIdle /\ CtlIdle /\ RecIdle /\ ArbIdle /\ InitRenderPart /\ RegIdle /\ EaseIdle /\ PxIdle /\ ShapesIdle /\ SpinIdle /\ EditorIdle
InitLoad == FboIdle /\ CtlIdle /\ RecIdle /\ ArbIdle /\ InitLoadPart /\ RegIdle /\ EaseIdle /\ PxIdle /\ ShapesIdle /\ SpinIdle /\ EditorIdle
SpecRender == InitRender /\ [][NextRender]_vars
SpecInvalidate == InitRender /\ [][NextInvalidate]_vars
SpecLoad == InitLoad /\ [][NextLoad]_vars
SpecDispatch == InitDispatch /\ [][NextDispatch]_vars
InitEase == FboIdle /\ CtlIdle /\ RecIdle /\ ArbIdle /\ GpuIdle /\ RegIdle /\ InitEasePart /\ PxIdle /\ ShapesIdle /\ SpinIdle /\ EditorIdle
InitLong == FboIdle /\ RecIdle /\ ArbIdle /\ InitLongPart /\ GpuIdle /\ RegIdle /\ EaseIdle /\ PxIdle /\ ShapesIdle /\ SpinIdle /\ EditorIdle
SpecLong == InitLong /\ [][NextLong]_vars
SpecEase == InitEase /\ [][NextEase]_vars
InitShapes == FboIdle /\ CtlIdle /\ RecIdle /\ ArbIdle /\ GpuIdle /\ RegIdle /\ EaseIdle /\ PxIdle /\ InitShapesPart /\ SpinIdle /\ EditorIdle
SpecShapes == InitShapes /\ [][NextShapes]_vars
InitSpin == FboIdle /\ CtlIdle /\ RecIdle /\ ArbIdle /\ GpuIdle /\ RegIdle /\ EaseIdle /\ PxIdle /\ ShapesIdle /\ InitSpinPart /\ EditorIdle
SpecSpin == InitSpin /\ [][NextSpin]_vars
InitCodec == FboIdle /\ CtlIdle /\ RecIdle /\ ArbIdle /\ GpuIdle /\ RegIdle /\ EaseIdle /\ InitCodecPart /\ ShapesIdle /\ SpinIdle /\ EditorIdle
SpecCodec == InitCodec /\ [][NextCodec]_vars
InitRedraw ==
    \/ InitNorth
    \/ FboIdle /\ RecIdle /\ ArbIdle /\ InitRedrawPart /\ GpuIdle /\ RegIdle /\ EaseIdle /\ PxIdle /\ ShapesIdle /\ SpinIdle /\ EditorIdle
SpecRedraw == InitRedraw /\ [][NextRedraw]_vars
InitEditor == FboIdle /\ CtlIdle /\ RecIdle /\ ArbIdle /\ GpuIdle /\ RegIdle /\ EaseIdle /\ PxIdle /\ ShapesIdle /\ SpinIdle /\ InitEditorPart

\* The user goes on pressing and releasing the mouse button over the globe, and
\* sooner or later makes each kind of release (single or double click, with or
\* without the vertices the shape needs).
FairSpecEditor ==
    /\ InitEditor /\ [][NextEditor]_vars
    /\ WF_vars(EditorMouseDown)
    /\ \A doubleClick \in BOOLEAN, enough \in BOOLEAN :
            SF_vars(MouseUpWith(doubleClick, enough))

\* The browser runs every callback it holds, and time passes.
FairSpecCtl ==
    /\ InitCtl /\ [][NextTimed]_vars
    /\ \A a \in 1..MaxFrames : WF_vars(Tick(TimedInputs, a))
    /\ \A d \in TimeSteps : WF_vars(Advance(d))

(***************************************************************************)
(* DoubleBufferedFbo: properties of SpecFbo                                *)
(***************************************************************************)

\* C1: for a pair constructed with (texture1, texture2), after an even number of
\* swap() calls, however interleaved with bind, bindFbo and clearFbo,
\* getPrimaryTexture() is the texture passed first and getSecondaryTexture() the
\* one passed second; after an odd number it is the other way round.
C1_PingPong ==
    ~dbf.disposed =>
        IF dbf.swapCount % 2 = 0
        THEN getPrimaryTexture(dbf) = "texture1" /\ getSecondaryTexture(dbf) = "texture2"
        ELSE getPrimaryTexture(dbf) = "texture2" /\ getSecondaryTexture(dbf) = "texture1"

\* An odd number of swaps, two of them made inside a clearFbo that did clear.
C1_Witness ==
    /\ fboOp.name = "clearFbo" /\ ~fboOp.isCleared
    /\ dbf.swapCount = 3
    /\ getPrimaryTexture(dbf) = "texture2"

C3_OnePrimarySide ==
    ~dbf.disposed =>
        /\ dbf.primary \in {1, 2}
        /\ getPrimaryTexture(dbf) # getSecondaryTexture(dbf)
        /\ getPrimaryFbo(dbf) # getSecondaryFbo(dbf)
        /\ \/ getPrimaryTexture(dbf) = "texture1" /\ getPrimaryFbo(dbf) = "fbo1"
           \/ getPrimaryTexture(dbf) = "texture2" /\ getPrimaryFbo(dbf) = "fbo2"
        /\ fboOp.name = "bindFbo" =>
               /\ dbf.boundFramebuffer = getPrimaryFbo(dbf)
               /\ dbf.attachment[dbf.boundFramebuffer] = getPrimaryTexture(dbf)
        /\ fboOp.name = "bind" => dbf.boundTexture = getPrimaryTexture(dbf)

\* bindFbo has just bound the second side, after a bind made while the first side
\* was primary.
C3_Witness ==
    /\ fboOp.name = "bindFbo"
    /\ dbf.primary = 2 /\ dbf.boundFramebuffer = "fbo2"
    /\ dbf.boundTexture = "texture1"

(***************************************************************************)
(* BasicWorldWindowController: properties                                  *)
(***************************************************************************)

\* The fling animation started in slot a has a callback pending.
Active(a) == \E f \in ctl.frames : f.anim = a

\* C4: at every instant at most one fling animation callback is scheduled.
C4_AtMostOneFling == Cardinality(ctl.frames) <= 1

\* C5: when onGestureEvent has processed a pointerdown, no fling callback scheduled
\* before it is still pending, and flingAnimationId is -1.
C5_PointerDownCancels ==
    ctlOp.name = "pointerdown" => ctl.frames = {} /\ ctl.flingAnimationId = -1

\* C6: a fling tick requests another frame only if it computed elapsed < 1; after a
\* tick that computed elapsed >= 1 the animation is not scheduled and
\* flingAnimationId is -1; and with time advancing and every pending callback run,
\* every fling animation that is pending eventually is pending no more.
C6_StopsAtElapsedOne ==
    /\ [](ctlOp.name = "tick" =>
            /\ ctlOp.rescheduled => ctlOp.below
            /\ ~ctlOp.below => ~ctlOp.rescheduled /\ ctl.flingAnimationId = -1)
    /\ \A a \in 1..MaxFrames : Active(a) ~> ~Active(a)

\* The last tick of a 3D fling: it computed elapsed >= 1 and nothing is pending.
C6_Witness ==
    /\ ctlOp.name = "tick" /\ ctlOp.kind = "3D"
    /\ ~ctlOp.below /\ ~ctlOp.rescheduled
    /\ ctl.frames = {} /\ ctl.flingAnimationId = -1

\* C7 as stated: every tick of a fling that computed elapsed < 1 schedules the
\* animation again, whatever happened to the camera between ticks.
C7_ReschedulesUntilElapsedOne ==
    ctlOp.name = "tick" /\ ctlOp.below => ctlOp.rescheduled

\* C7 as the code has it: a tick schedules the animation again exactly when it
\* computed elapsed < 1 and, for a 2D or double-click fling, the navigator's
\* lookAtLocation was the one the animation recorded last; a 3D fling does not look
\* at the navigator's location.
C7_ReschedulesUnlessMoved ==
    ctlOp.name = "tick" =>
        (ctlOp.rescheduled <=> ctlOp.below /\ (ctlOp.kind = "3D" \/ ctlOp.located))

\* A 2D fling tick that computed elapsed < 1 found the navigator moved and did not
\* schedule the animation again, while another fling stays pending.
C7_Witness ==
    /\ ctlOp.name = "tick" /\ ctlOp.kind = "2D"
    /\ ctlOp.below /\ ~ctlOp.located /\ ~ctlOp.rescheduled
    /\ Cardinality(ctl.frames) = 1

\* C8: navigator.range, positive at the start, is a finite number greater than 0
\* after every controller operation.
C8_RangeStaysPositive == ctl.range = "pos"

(***************************************************************************)
(* DragRecognizer and PanRecognizer: properties of SpecRec                 *)
(***************************************************************************)

\* C9: a touchStart delivered to a DragRecognizer in Possible, and a mouseDown
\* delivered to a PanRecognizer in Possible, leaves the recognizer Failed; and under
\* every mouse, touch and timer event a recognizer that is Failed stays Failed
\* unless the event ends in reset().
C9_ExclusiveModality ==
    [][ /\ recOp'.name = "touchStart" /\ drag.state = "Possible" => drag'.state = "Failed"
        /\ recOp'.name = "mouseDown" /\ pan.state = "Possible" => pan'.state = "Failed"
        /\ drag.state = "Failed" /\ drag'.state # "Failed" => recOp'.dragReset
        /\ pan.state = "Failed" /\ pan'.state # "Failed" => recOp'.panReset ]_vars

\* Both recognizers failed on the other modality's event, and the drag recognizer's
\* click timer has since fired and found it Failed.
C9_Witness ==
    /\ recOp.name = "dragTimeout" /\ recOp.drag = "Failed"
    /\ drag.state = "Failed" /\ drag.touchCount > 0
    /\ pan.state = "Failed" /\ pan.mouseButtonMask # 0

\* C10: a DragRecognizer enters Began only from Possible, at a mouseMove whose
\* translation is longer than interpretDistance, with clickCounter equal to
\* numberOfClicks and its button the only button down; a PanRecognizer enters Began
\* only from Possible, at a touchMove whose translation is longer than
\* interpretDistance, with tapCounter equal to numberOfTaps and a touch count that is
\* not zero and lies within [minNumberOfTouches, maxNumberOfTouches].
C10_BeganOnlyPastThreshold ==
    [][ /\ drag.state # "Began" /\ drag'.state = "Began" =>
              /\ drag.state = "Possible" /\ recOp'.name = "mouseMove"
              /\ recOp'.tx * recOp'.tx + recOp'.ty * recOp'.ty
                    > drag.interpretDistance * drag.interpretDistance
              /\ drag.clickCounter = drag.numberOfClicks
              /\ drag.mouseButtonMask = Bit(drag.button)
        /\ pan.state # "Began" /\ pan'.state = "Began" =>
              /\ pan.state = "Possible" /\ recOp'.name = "touchMove"
              /\ recOp'.tx * recOp'.tx + recOp'.ty * recOp'.ty
                    > pan.interpretDistance * pan.interpretDistance
              /\ pan.tapCounter = pan.numberOfTaps
              /\ pan.touchCount # 0
              /\ pan.touchCount >= pan.minNumberOfTouches
              /\ pan.touchCount <= pan.maxNumberOfTouches ]_vars

\* A double-click DragRecognizer has begun at a move just past its threshold.
C10_Witness ==
    /\ recOp.name = "mouseMove" /\ recOp.drag = "Possible"
    /\ recOp.tx = 3 /\ recOp.ty = 1
    /\ drag.state = "Began" /\ drag.numberOfClicks = 2

\* C11 as stated: a recognizer in Possible becomes Began at every move event whose
\* translation is longer than interpretDistance.
C11_BeginsPastThreshold ==
    [][ /\ recOp'.name = "mouseMove" /\ drag.state = "Possible"
           /\ recOp'.tx * recOp'.tx + recOp'.ty * recOp'.ty
                 > drag.interpretDistance * drag.interpretDistance
           => drag'.state = "Began"
        /\ recOp'.name = "touchMove" /\ pan.state = "Possible"
           /\ recOp'.tx * recOp'.tx + recOp'.ty * recOp'.ty
                 > pan.interpretDistance * pan.interpretDistance
           => pan'.state = "Began" ]_vars

\* C11 as the code has it: a DragRecognizer in Possible becomes Began at a mouseMove
\* whose translation is longer than interpretDistance exactly when clickCounter
\* equals numberOfClicks and its button is the only button down, and otherwise stays
\* Possible; a PanRecognizer in Possible becomes Began at such a touchMove exactly
\* when tapCounter equals numberOfTaps and the touch count is not zero and within
\* [minNumberOfTouches, maxNumberOfTouches], and otherwise stays Possible.
C11_BeginsPastThresholdWhenCounted ==
    [][ /\ recOp'.name = "mouseMove" /\ drag.state = "Possible"
           /\ recOp'.tx * recOp'.tx + recOp'.ty * recOp'.ty
                 > drag.interpretDistance * drag.interpretDistance
           => IF /\ drag.clickCounter = drag.numberOfClicks
                 /\ drag.mouseButtonMask = Bit(drag.button)
              THEN drag'.state = "Began" ELSE drag'.state = "Possible"
        /\ recOp'.name = "touchMove" /\ pan.state = "Possible"
           /\ recOp'.tx * recOp'.tx + recOp'.ty * recOp'.ty
                 > pan.interpretDistance * pan.interpretDistance
           => IF /\ pan.tapCounter = pan.numberOfTaps
                 /\ pan.touchCount # 0
                 /\ pan.touchCount >= pan.minNumberOfTouches
                 /\ pan.touchCount <= pan.maxNumberOfTouches
              THEN pan'.state = "Began" ELSE pan'.state = "Possible" ]_vars

\* A two-finger double-tap PanRecognizer has begun at a move just past its threshold.
C11_Witness ==
    /\ recOp.name = "touchMove" /\ recOp.pan = "Possible"
    /\ recOp.tx = 12 /\ recOp.ty = 17
    /\ pan.state = "Began" /\ pan.numberOfTaps = 2 /\ pan.touchCount = 2

\* C13: for a recognizer that requires more than one click or tap, a mouseDown of
\* the configured button (a touchStart with an accepted touch count) received in
\* Possible leaves the delayed-failure timer pending; the timer firing while the
\* recognizer is in Possible, Began or Changed leaves it Failed; and a recognizer
\* that requires one click or tap never has a timer pending.
C13_TimerFailsNonTerminal ==
    [][ /\ recOp'.name = "mouseDown" /\ drag.state = "Possible" /\ drag.numberOfClicks > 1
           /\ drag'.mouseButtonMask - drag.mouseButtonMask = Bit(drag.button)
           => drag'.timeout # 0 /\ drag'.timers = {drag'.timeout}
        /\ recOp'.name = "touchStart" /\ pan.state = "Possible" /\ pan.numberOfTaps > 1
           /\ pan'.touchCount >= pan.minNumberOfTouches
           /\ pan'.touchCount <= pan.maxNumberOfTouches
           => pan'.timeout # 0 /\ pan'.timers = {pan'.timeout}
        /\ recOp'.name = "dragTimeout" /\ drag.state \in {"Possible", "Began", "Changed"}
           => drag'.state = "Failed"
        /\ recOp'.name = "panTimeout" /\ pan.state \in {"Possible", "Began", "Changed"}
           => pan'.state = "Failed"
        /\ drag.numberOfClicks = 1 => drag'.timers = {}
        /\ pan.numberOfTaps = 1 => pan'.timers = {} ]_vars

\* The states a recognizer does not leave before reset().
TerminalStates == {"Failed", "Ended", "Cancelled", "Recognized"}

\* C14: no delayed-failure timer is pending after an event that ended in reset(),
\* and none is pending while the recognizer is in a terminal state.
C14_NoTimerInTerminalState ==
    /\ recOp.dragReset => drag.timers = {}
    /\ recOp.panReset => pan.timers = {}
    /\ drag.state \in TerminalStates => drag.timers = {}
    /\ pan.state \in TerminalStates => pan.timers = {}

(***************************************************************************)
(* Recognizer dependencies: properties of SpecArb                          *)
(***************************************************************************)

\* C12: pan, pinch and rotation each require tilt to fail: none of them enters Began
\* while the tilt recognizer is in Possible, Began or Changed, and none of them is
\* in Began or Changed unless the tilt recognizer is Failed.
C12_MustFailFirst ==
    [][ \A r \in {"pan", "pinch", "rotation"} :
          /\ arb.state[r] # "Began" /\ arb'.state[r] = "Began"
                => arb.state["tilt"] = "Failed" /\ arb'.state["tilt"] = "Failed"
          /\ arb'.state[r] \in {"Began", "Changed"} => arb'.state["tilt"] = "Failed" ]_vars

\* Tilt has failed with two touches down, pinch and rotation have begun together and
\* pan, held back until then, is still Possible.
C12_Witness ==
    /\ arb.touchCount = 2
    /\ arb.state["tilt"] = "Failed"
    /\ arb.state["pinch"] = "Changed" /\ arb.state["rotation"] = "Began"
    /\ arb.state["pan"] = "Possible"

(***************************************************************************)
(* The north-up lock: properties of SpecNorth                              *)
(***************************************************************************)

\* A Changed event of a rotation gesture or of an arc-ball secondary drag.
HeadingChanged ==
    /\ ctlOp'.state = "CHANGED"
    /\ ctlOp'.gesture \in {"rotation", "secondary"}
    /\ ctl.isArcBall \/ ctlOp'.gesture = "rotation"

\* C15: with keepNorthUp true, in a rotation gesture or an arc-ball secondary drag
\* that began at heading 0, a Changed event locks the heading to north (northUpMode
\* becomes keepNorthUp, heading 0) only if an earlier Changed event of the gesture
\* left the heading beyond 10 degrees and the event finds the heading strictly
\* within 10 degrees; and every Changed event that finds both sets heading to 0.
C15_NorthUpHysteresis ==
    [][ HeadingChanged /\ ctl.keepNorthUp /\ ctlOp.began
        => /\ ctl'.northUpMode
                => ctlOp.exceeded /\ Abs(ctl.heading) < NorthUpTolerance
           /\ ctlOp.exceeded /\ Abs(ctl.heading) < NorthUpTolerance
                => ctl'.heading = 0 /\ ctl'.northUpMode
      ]_vars

\* A rotation gesture that began at heading 0 went beyond 10 degrees, came back
\* to 9, and the next Changed event has set the heading to 0.
C15_Witness ==
    /\ ctlOp.gesture = "rotation"
    /\ ctlOp.state = "CHANGED"
    /\ ctlOp.began
    /\ ctlOp.exceeded
    /\ ctlOp.found = 9
    /\ ctl.keepNorthUp
    /\ ctl.northUpMode
    /\ ctl.heading = 0

\* C16: in handleRotation and the arc-ball handleSecondaryDrag, detectNorthUp is
\* false at Began and turns true only at a Changed event that leaves
\* |heading| > 10; a Changed event sets northUpMode to keepNorthUp and heading to 0
\* when it finds detectNorthUp true and |heading| < 10, and northUpMode to false
\* otherwise; northUpMode does not turn true while keepNorthUp is false.
C16_NorthUpLatch ==
    [][ /\ ctlOp'.state = "BEGAN" /\ ctlOp'.gesture \in {"rotation", "secondary"}
             => ~ctl'.detectNorthUp
        /\ HeadingChanged
             => /\ ~ctl.detectNorthUp /\ ctl'.detectNorthUp
                     => Abs(ctl'.heading) > NorthUpTolerance
                /\ IF ctl.detectNorthUp /\ Abs(ctl.heading) < NorthUpTolerance
                   THEN ctl'.northUpMode = ctl.keepNorthUp /\ ctl'.heading = 0
                   ELSE ~ctl'.northUpMode
        /\ ctlOp'.gesture \in {"rotation", "secondary"} /\ ~ctl.keepNorthUp
             => ~(~ctl.northUpMode /\ ctl'.northUpMode)
      ]_vars

\* With keepNorthUp false, a secondary drag went beyond 10 degrees, came back, and
\* the heading was set to 0 while northUpMode stayed false.
C16_Witness ==
    /\ ctlOp.gesture = "secondary"
    /\ ctlOp.state = "CHANGED"
    /\ ctlOp.exceeded
    /\ ~ctl.keepNorthUp
    /\ ctl.detectNorthUp
    /\ ctlOp.found = 0 - 9
    /\ ctl.heading = 0
    /\ ~ctl.northUpMode

(***************************************************************************)
(* The double-click latch: properties of SpecClick                         *)
(***************************************************************************)

\* The controller as it is when the handler of a move event is called.
AtDispatch == [ctl EXCEPT !.press = ctl'.press, !.pointerLocation = ctl'.pointerLocation,
                          !.longClick = ctl'.longClick,
                          !.readyToDetectLongClickBeforeMove =
                              ctl'.readyToDetectLongClickBeforeMove]

\* C17: a pointerdown that finds the doubleClick latch false sets it exactly when
\* it comes less than 300 ms after the previous pointerdown, and one that finds it
\* true leaves it true; with the latch true on a 3D globe under the arc-ball
\* camera, a state change of the primary drag or pan recognizer has the effect of
\* handleDoubleClickDragOrPan (a Changed event scales the range by
\* 1 - (y - lastPoint) / 200) and leaves lookAtLocation and the drag bookkeeping of
\* handlePanOrDrag3D alone; on a 2D globe the state change has the effect of
\* handlePanOrDrag2D whatever the latch is.
C17_DoubleClickLatch ==
    [][ /\ ctlOp'.name = "pointerdown"
             => ctl'.doubleClick = (ctl.doubleClick \/ ctl.sinceClick < DoubleClickInterval)
        /\ ctlOp'.name = "drag" /\ ctl.isArcBall /\ ~ctl.is2D /\ ctl.doubleClick
             => /\ ctl'.lookAtLocation = ctl.lookAtLocation
                /\ ctl'.dragDelta = ctl.dragDelta
                /\ ctl'.dragLastLocation = ctl.dragLastLocation
                /\ ctl'.lastPoint = ctlOp'.in.y
                /\ ctl'.range = IF ctlOp'.state = "CHANGED"
                                THEN Times(ctl.range,
                                           SignOf(DeltaScaleDivisor
                                                  - (ctlOp'.in.y - ctl.lastPoint)))
                                ELSE ctl.range
        /\ ctlOp'.name = "drag" /\ ctl.isArcBall /\ ctl.is2D
             => ctl' = handlePanOrDrag2D(AtDispatch, ctlOp'.state, ctlOp'.in.y,
                                         ctlOp'.in.hit, ctlOp'.in.params)
      ]_vars

\* A drag on the 3D globe under the arc-ball camera, started by a press that set
\* the latch, over a point where the ray meets the globe at another location: the
\* range is scaled to zero and the look-at location is not the ray's.
C17_Witness ==
    /\ ctlOp.name = "drag"
    /\ ctlOp.state = "CHANGED"
    /\ ctlOp.in.hit
    /\ ctlOp.in.params.origin # ctl.lookAtLocation
    /\ ctl.doubleClick
    /\ ctl.isArcBall
    /\ ~ctl.is2D
    /\ ctl.range = "zero"

(***************************************************************************)
(* Rays that miss the globe: properties of SpecRay                         *)
(***************************************************************************)

\* The camera parameters of the navigator.
Camera(k) == <<k.lookAtLocation, k.range, k.heading, k.tilt, k.roll>>

C19_MissingValueThrows ==
    gpuOp.count > 0 /\ (\E i \in DOMAIN gpuOp.args : gpuOp.args[i] \in Missing)
        => gpu.thrown = "ArgumentError" /\ ~gpu.issued

(***************************************************************************)
(* renderToTexture: properties of SpecRender                               *)
(***************************************************************************)

\* The steps of a renderToTexture call that finds the pairs ground and sim with
\* the primary framebuffers fg and fs.
RenderSteps(ground, fg, sim, fs) ==
    << <<"bindFbo", ground, fg>>,
       <<"drawArrays", ground, "copy-fade">>,
       <<"drawArrays", ground, "particles">>,
       <<"swap", ground, "">>,
       <<"isCleared", ground, "false">>,
       <<"bindFbo", sim, fs>>,
       <<"drawArrays", sim, "simulation">>,
       <<"swap", sim, "">>,
       <<"isCleared", sim, "false">> >>

\* The primary framebuffer of the pair key as a renderToTexture call finds it.
PrimaryFboOf(g, key) ==
    IF g.resources[key] = <<>> THEN "fbo1" ELSE getPrimaryFbo(resourceForKey(g, key))

\* C20: the steps that a renderToTexture call takes are, in this order: bind the
\* ground pair's primary framebuffer, copy-fade draw, particle draw, ground swap,
\* ground isCleared := false, bind the sim pair's primary framebuffer,
\* simulation-update draw, sim swap, sim isCleared := false; a call that an
\* ArgumentError ends has taken the first steps of these and no other; a frame that
\* is rendered swaps the ground pair once and the sim pair once, and a step on the
\* sim pair comes only after the ground swap.
C20_RenderOrder ==
    [][ gpuOp'.name = "doRender" =>
          LET offset == gpuOp'.args[1]
              steps == gpu'.steps
              all == RenderSteps(GroundKey(offset), PrimaryFboOf(gpu, GroundKey(offset)),
                                 SimKey(offset), PrimaryFboOf(gpu, SimKey(offset)))
          IN /\ Len(steps) <= Len(all)
             /\ steps = SubSeq(all, 1, Len(steps))
             /\ steps # <<>> /\ gpu'.thrown = "none"
                  => /\ steps = all
                     /\ SwapsOf(gpu', offset)[1] = SwapsOf(gpu, offset)[1] + 1
                     /\ SwapsOf(gpu', offset)[2] = SwapsOf(gpu, offset)[2] + 1
             /\ \A i \in 1..Len(steps) :
                  steps[i][2] = SimKey(offset)
                      => \E j \in 1..(i - 1) : steps[j] = <<"swap", GroundKey(offset), "">>
      ]_vars

\* A second frame rendered at the same offset, on pairs that the first has swapped.
C20_Witness ==
    /\ gpuOp.name = "doRender"
    /\ gpu.thrown = "none"
    /\ Len(gpu.steps) = 9
    /\ gpu.steps[1] = <<"bindFbo", "ground", "fbo2">>
    /\ gpu.steps[6] = <<"bindFbo", "sim", "fbo2">>
    /\ resourceForKey(gpu, "ground").swapCount = 2
    /\ resourceForKey(gpu, "sim").swapCount = 2

\* Whether the pair under key, if the cache holds one, has been cleared with
\* clearFbo and not been rendered into since.
ClearedOrAbsent(g, key) ==
    g.resources[key] = <<>> \/ resourceForKey(g, key).isCleared

\* C21: when the model-view-projection matrix has changed, or numParticles or
\* colors has been set, since the layer last rendered particles, a doRender call
\* that renders particles finds the ground pair and the sim pair of its globe
\* offset cleared with clearFbo (each holds zeroes and is marked isCleared), unless
\* the pair is new.
C21_BothPairsCleared ==
    [][ /\ gpuOp'.name = "doRender"
        /\ gpu'.steps # <<>>
        /\ gpu.invalidated \/ gpuOp'.args[2]
        => /\ ClearedOrAbsent(gpu, GroundKey(gpuOp'.args[1]))
           /\ ClearedOrAbsent(gpu, SimKey(gpuOp'.args[1]))
    ]_vars

(***************************************************************************)
(* onGestureEvent: properties of SpecDispatch                              *)
(***************************************************************************)

\* The indices from i on of the recognizers whose target is the world window.
RECURSIVE OfWorldWindow(_, _)
OfWorldWindow(all, i) ==
    IF i > Len(all) THEN <<>>
    ELSE IF all[i].target = "wwd" THEN <<i>> \o OfWorldWindow(all, i + 1)
    ELSE OfWorldWindow(all, i + 1)

\* C22: an event other than wheel that the base controller has not handled is
\* delivered once to each recognizer of allRecognizers whose target is the world
\* window, in the order of the array, whatever the recognizers before it did with
\* the event; a wheel event is delivered to no recognizer.
C22_DeliveredOnceInOrder ==
    [][ reg'.type # "none" /\ Len(reg'.allRecognizers) = Len(reg.allRecognizers)
        => /\ (~reg'.baseHandled /\ reg'.type # "wheel")
                => reg'.delivered = OfWorldWindow(reg.allRecognizers, 1)
           /\ reg'.type = "wheel" => reg'.delivered = <<>>
    ]_vars

\* An event was delivered to the first and to the third recognizer, past one of
\* another target, after the first reported it handled and went to Began.
C22_Witness ==
    /\ reg.type = "pointermove"
    /\ ~reg.baseHandled
    /\ reg.delivered = <<1, 3>>
    /\ reg.allRecognizers[1].state = "Began"
    /\ reg.allRecognizers[2].target = "other"
    /\ reg.allRecognizers[3].state = "Began"
    /\ reg.handled

(***************************************************************************)
(* BasicWorldWindowController: redraw requests, properties of SpecRedraw   *)
(***************************************************************************)

\* C23: a handler call or a fling tick that changes lookAtLocation, range,
\* heading, tilt or roll has called wwd.redraw() when it returns: a redraw is
\* requested after every step that changes the camera.
C23_RedrawAfterChange ==
    [][ Camera(ctl') # Camera(ctl) => ctl'.redrawRequested ]_vars

\* A tilt gesture has changed the tilt, and a redraw is requested.
C23_Witness ==
    /\ HeadingGestures
    /\ ctlOp.gesture = "tilt"
    /\ ctlOp.state = "CHANGED"
    /\ ctl.tilt # 0
    /\ ctl.redrawRequested

\* C24: the tick of a fling animation that runs at elapsed = 1 applies nothing: it
\* leaves the camera's position along the fling (lookAtLocation, heading) and
\* navigator.range as they were.
C24_LastTickAppliesNothing ==
    [][ ease.pending /\ ease'.elapsed = 3 /\ ease' # ease
        => ease'.position = ease.position /\ ease'.range = ease.range ]_vars

\* |decoded / (255 * 255) - n / Resolution| <= 1 / 255
WithinOne255th(decoded, n) ==
    LET difference == decoded * Resolution - n * 255 * 255
    IN Abs(difference) <= 255 * Resolution

\* C25: a position of [0,1)^2 that was encoded, stored in an RGBA8 texel and
\* decoded is within 1/255 of the original on each axis.
C25_RoundTrip ==
    px.decoded # <<>>
    => /\ WithinOne255th(px.decoded[1], px.pos[1])
       /\ WithinOne255th(px.decoded[2], px.pos[2])

\* A position whose coordinates do not fit one byte each went through the texel.
C25_Witness ==
    /\ px.decoded # <<>>
    /\ px.bytes[2] # 0
    /\ px.bytes[4] # 0
    /\ px.bytes[1] # px.bytes[3]

\* Side k of the pair: framebuffer k, texture k and the flag fbokComplete.
Sides ==
    { [fbo |-> "fbo1", texture |-> "texture1", primary |-> 1, complete |-> dbf.fbo1Complete],
      [fbo |-> "fbo2", texture |-> "texture2", primary |-> 2, complete |-> dbf.fbo2Complete] }

\* C26: whatever bindFbo, swap and clearFbo calls were made, framebufferTexture2D
\* was called at most once for each texture, a framebuffer has no other texture
\* attached than that of its side, the call for side k was made with framebuffer k
\* bound (so texture k is attached to it exactly when the call was made), and
\* after a bindFbo made while side k was primary, side k is attached.
C26_AttachedOnce ==
    \A side \in Sides :
        /\ dbf.attachCalls[side.texture] <= 1
        /\ dbf.attachment[side.fbo] \in {"none", side.texture}
        /\ (dbf.attachCalls[side.texture] = 1) = (dbf.attachment[side.fbo] = side.texture)
        /\ side.complete = (dbf.attachment[side.fbo] = side.texture)
        /\ (fboOp.name = "bindFbo" /\ fboOp.primary = side.primary)
           => dbf.attachment[side.fbo] = side.texture

\* bindFbo was called on a pair that has been swapped twice, with both sides
\* attached.
C26_Witness ==
    /\ fboOp.name = "bindFbo"
    /\ dbf.isCleared
    /\ dbf.swapCount = 2
    /\ \A side \in Sides : side.complete /\ dbf.attachCalls[side.texture] = 1

\* C27: north-up mode locks the heading: the navigator starts with heading 0, and
\* whenever northUpMode is true and no gesture is in progress (the pointer is up),
\* navigator.heading is 0, whatever drags and pans, under either camera and on
\* either kind of globe, came before.
C27_NorthUpLocksHeading ==
    ctl.northUpMode /\ ctl.press = "up" => ctl.heading = 0

\* The step handles the first pointermove after a pointerdown.
FirstMoveAfterDown ==
    ctlOp'.type = "pointermove" /\ ctlOp.downSeen /\ ctlOp.moves = 0

\* C28: longClick is assigned at the first pointermove after a pointerdown only, to
\* (timeStamp - lastClickTime > 1000); every other pointermove, and every step
\* that is not a pointerdown, leaves it as it is; every pointerdown sets it to
\* false; a 3D fling tick that runs 1500 ms after the start of its animation
\* schedules another one exactly when longClick is true at that tick (its duration
\* is then 6000000 ms), and a 2D fling tick of that age and a double-click fling
\* tick that runs after 500 ms never do.
C28_LongClick ==
    [][ /\ FirstMoveAfterDown => ctl'.longClick = (ctl.sinceClick > LongClickDelay)
        /\ ctlOp'.type = "pointerdown" => ~ctl'.longClick
        /\ ~FirstMoveAfterDown /\ ctlOp'.type # "pointerdown"
             => ctl'.longClick = ctl.longClick
        /\ /\ ctlOp'.type = "tick"
           /\ ctlOp'.age = IF ctlOp'.kind = "dbl" THEN DoubleClickAnimationDuration
                           ELSE AnimationDuration
             => ctlOp'.rescheduled = (ctlOp'.kind = "3D" /\ ctl.longClick)
      ]_vars

\* The step is a doRender of a layer whose gridData is null.
RendersWithoutData == gpuOp'.name = "doRender" /\ ~gpu.gridData

\* C29 as stated: while gridData is null, doRender renders nothing (no statement
\* of renderToTexture runs, no framebuffer pair is created) and calls
\* loadGridData; at most one request is in flight at a time; and after a failed
\* load a doRender that finds no load in progress issues a new request.
C29_LoadsWhileNoData ==
    [][ /\ RendersWithoutData
             => /\ gpu'.steps = <<>>
                /\ gpu'.resources = gpu.resources
                /\ gpu'.loadCalled
        /\ gpu'.requests <= 1
        /\ RendersWithoutData /\ gpuOp.count > 0 /\ ~gpu.loadInProgress
             => gpu'.requests = 1
      ]_vars

\* C29 as the code has it: the same, where doRender calls loadGridData, and issues
\* the new request, only in a frame whose draw context has a terrain (without one
\* it returns at once); _loadInProgress is true exactly while a request is in
\* flight.
C29_LoadsWhileNoDataOnTerrain ==
    [][ /\ RendersWithoutData
             => /\ gpu'.steps = <<>>
                /\ gpu'.resources = gpu.resources
                /\ gpu'.loadCalled = gpu'.terrain
        /\ gpu'.requests <= 1
        /\ gpu'.loadInProgress = (gpu'.requests = 1)
        /\ RendersWithoutData /\ gpuOp.count > 0 /\ ~gpu.loadInProgress
             => gpu'.requests = (IF gpu'.terrain THEN 1 ELSE 0)
      ]_vars

\* After a failed load, a frame with a terrain has sent a new request.
C29_Witness ==
    /\ gpuOp.name = "doRender"
    /\ gpuOp.count = 1
    /\ ~gpu.gridData
    /\ gpu.terrain
    /\ gpu.loadCalled
    /\ gpu.requests = 1

\* The whole range lies inside the selected one.
Inside(timeRange, selected) ==
    timeRange[1] >= selected[1] /\ timeRange[2] <= selected[2]

\* C30: in a frame, a shape with a two-element timeRange is rendered as enabled
\* exactly when its enabled flag is true and the layer has no two-element timeRange
\* or the shape's range lies inside the layer's; a shape with an empty timeRange is
\* rendered as its enabled flag says.
C30_TimeVisibility ==
    [][ \A i \in Renderables :
          LET shape == shapesLayer.renderables[i]
              selected == shapesLayer.timeRange
          IN shapesLayer'.seen[i] # <<>> /\ shapesLayer'.timeRange = shapesLayer.timeRange
             => /\ Len(shape.timeRange) = 2
                     => shapesLayer'.seen[i][1]
                          = (shape.enabled /\ (Len(selected) < 2
                                               \/ Inside(shape.timeRange, selected)))
                /\ Len(shape.timeRange) = 0
                     => shapesLayer'.seen[i][1] = shape.enabled
      ]_vars

\* With a range selected, one enabled shape of the frame was shown and one, whose
\* range reaches beyond the selected one, was hidden.
C30_Witness ==
    /\ Len(shapesLayer.timeRange) = 2
    /\ shapesLayer.seen[1] = <<TRUE>>
    /\ shapesLayer.seen[2] = <<FALSE>>
    /\ shapesLayer.renderables[2].enabled
    /\ Len(shapesLayer.renderables[2].timeRange) = 2
    /\ Len(shapesLayer.renderables[1].timeRange) = 2

(***************************************************************************)
(* renderToTexture: what is sampled and what is written                    *)
(***************************************************************************)

\* The draw calls that read one pair and write the other side of the same pair.
PairPasses == {"copy-fade", "simulation"}

\* C31: in every renderToTexture, the copy pass of the ground pair and the
\* simulation pass of the sim pair sample the pair's secondary texture and draw
\* into its primary one, no draw call samples the texture it draws into, and of two
\* frames in a row the second samples of a pair the texture the first drew into.
C31_ReadSecondaryWritePrimary ==
    [][ gpuOp'.name = "doRender"
        => \A i \in 1..Len(gpu'.draws) :
             LET d == gpu'.draws[i]
             IN /\ d.read # <<d.target, d.written>>
                /\ d.pass \in PairPasses
                     => /\ d.written = d.primaryTexture
                        /\ d.read = <<d.target, d.secondaryTexture>>
                        /\ gpuOp.name = "doRender"
                             => \A j \in 1..Len(gpu.draws) :
                                  gpu.draws[j].target = d.target
                                    => d.read = <<d.target, gpu.draws[j].written>>
      ]_vars

\* C32: the texture that bind(dc) hands to the surface tile renderer in a frame is
\* the ground texture that the draw calls of that frame's renderToTexture drew into.
C32_HandsOverWhatWasDrawn ==
    gpu.handed # <<>>
        => \A i \in 1..Len(gpu.draws) :
             gpu.draws[i].target = gpu.handed[1]
                => gpu.handed = <<gpu.draws[i].target, gpu.draws[i].written>>

(***************************************************************************)
(* handleFling3D: properties of SpecSpin                                   *)
(***************************************************************************)

\* C33: every tick of a 3D fling that started without northUpMode rotates the globe
\* by the eased fraction of the angle between the begin and last intersection
\* points, and every tick of one that started with northUpMode subtracts the eased
\* fraction of the last drag's latitude delta.
C33_FlingAsDrag ==
    [][ spin.fling # <<>> /\ spin'.fling # <<>>
        /\ spin'.fling[1].elapsed # spin.fling[1].elapsed
        => LET before == spin.fling[1]
               after == spin'.fling[1]
               \* twice 1 - value
               left == 2 - TwiceSin(after.elapsed)
           IN IF ~spin.northUpMode
              THEN after.position = before.position + spin.between * left
              ELSE after.position = before.position - spin.dragDelta * left
      ]_vars

(***************************************************************************)
(* doRender: the pause after a clear                                       *)
(***************************************************************************)

\* The frame of this step cleared the ground pair of its globe offset.
ClearedNow ==
    LET key == GroundKey(gpuOp'.args[1])
    IN /\ gpu.resources[key] # <<>>
       /\ ~resourceForKey(gpu, key).isCleared
       /\ gpu'.resources[key] # <<>>
       /\ resourceForKey(gpu', key).isCleared

\* The frame of this step called neither renderToTexture nor renderTiles; it called
\* both, or renderToTexture threw.
Paused == gpu'.thrown = "none" /\ gpu'.steps = <<>> /\ gpu'.handed = <<>>
Rendered == gpu'.thrown # "none" \/ (gpu'.steps # <<>> /\ gpu'.handed # <<>>)

\* The time since the last clear with which the frame of this step reaches the test
\* of waitTime.
SinceLastClear == IF ClearedNow THEN 0 ELSE gpu.sinceClear

\* What C34 and its amendment share: a frame restarts the pause exactly when it
\* clears the ground pair, a clear request is answered by resetting
\* _requiresFboClear, and a frame at most waitTime after the last clear neither
\* renders to texture nor renders tiles.
PauseAfterClear ==
    /\ gpu'.sinceClear = SinceLastClear
    /\ (gpuOp'.args[2] \/ gpu.requiresFboClear) => ~gpu'.requiresFboClear
    /\ SinceLastClear <= waitTime => Paused

OneTimer(r) ==
    IF r.timeout = 0 THEN r.timers = {} ELSE r.timers = {r.timeout}

\* The timer of r has fired, leaving r1: the field is null, no timer is pending,
\* and outside Possible and Began nothing else has changed.
Fired(r, r1) ==
    /\ r1.timeout = 0
    /\ r1.timers = {}
    /\ r.state \notin {"Possible", "Began"}
         => r1 = [r EXCEPT !.timeout = 0, !.timers = {}]

C35_FiredLate ==
    /\ recOp.name = "dragTimeout" /\ recOp.drag \notin {"Possible", "Began"}

(***************************************************************************)
(* The life of the double-click latch: properties of SpecLatch             *)
(***************************************************************************)

\* C36: a doubleClick latch that is true stays true across every pointerdown
\* (whatever the time since the previous one), pointerup and state change of a
\* gesture, and becomes false only when a fling recognizer reaches Recognized on a
\* 3D globe; on a 2D globe it is never cleared.
C36_LatchStays ==
    [][ ctl.doubleClick /\ ~ctl'.doubleClick
          => /\ ctlOp'.name = "fling"
             /\ ctlOp'.state = "RECOGNIZED"
             /\ ~ctl.is2D ]_vars

\* On a 3D globe, 300 ms or more after the last pointerdown, a fling has found the
\* latch true, cleared it and scheduled the zoom animation.
C36_Witness ==
    /\ ctlOp.name = "fling"
    /\ ~ctl.is2D
    /\ ~ctl.doubleClick
    /\ ctl.sinceClick >= DoubleClickInterval
    /\ \E f \in ctl.frames : f.kind = "dbl"

\* On a 2D globe a fling has been handled and the latch is still true.
C36_Kept2D ==
    /\ ctlOp.name = "fling"
    /\ ctl.is2D
    /\ ctl.doubleClick

(***************************************************************************)
(* After the north-up snap: properties of SpecTwist                        *)
(***************************************************************************)

\* A Changed event of the rotation or the secondary drag gesture in progress.
TwistChanges ==
    /\ ctlOp'.state = "CHANGED"
    /\ ctlOp'.name \in {"rotation", "secondary"}

C38_OwnBeginPoint ==
    [][ spin.dragging /\ spin'.dragging /\ spin'.dragged # <<>>
          => spin.beginFrom = "thisGesture" ]_vars

(***************************************************************************)
(* RenderableLayer.doRender: the enabled flags, properties of SpecShapes   *)
(***************************************************************************)

\* C39: doRender leaves the enabled flag of every renderable as it was before the
\* call, also of a renderable whose render() throws, and calls render() of every
\* renderable, whichever of them throw.
C39_EnabledRestored ==
    [][ shapesLayer'.timeRange = shapesLayer.timeRange
          => \A i \in Renderables :
               /\ shapesLayer'.renderables[i].enabled = shapesLayer.renderables[i].enabled
               /\ shapesLayer'.seen[i] # <<>> ]_vars

(***************************************************************************)
(* The promises of ShapeEditor.create: properties of FairSpecEditor        *)
(***************************************************************************)

Promised == 1..Len(editor.promises)

IsPending(p) == p \in Promised /\ editor.promises[p] = <<"pending">>

\* C40: every promise that create() has returned is eventually settled, also when
\* stop(), edit() or another create() is called before the shape is completed; a
\* settled promise stays as it was settled; and creator mode is on only while a
\* promise is pending.
C40_EverySettled ==
    /\ \A p \in 1..MaxPromises : IsPending(p) ~> ~IsPending(p)
    /\ [][ \A p \in Promised :
             ~IsPending(p) => editor'.promises[p] = editor.promises[p] ]_vars
    /\ [](editor.creatorEnabled => \E p \in Promised : IsPending(p))

====
